------------------------------ MODULE Previews ------------------------------
(***************************************************************************)
(* Preview environments of one app: `teploy preview deploy`, `destroy` and *)
(* `prune`.  A preview is a container, a route and a state file, named     *)
(* after the branch as SanitizeBranch writes it.  No lock is taken, so the *)
(* commands of several clients interleave; each command they send over SSH *)
(* is an action.                                                           *)
(***************************************************************************)
EXTENDS Mishaps, FiniteSets

CONSTANTS Branches,
          Labels,        \* the DNS labels of branches
          Sanitize,      \* SanitizeBranch: not injective
          Extends,       \* pairs <<l, m>>: label m extends label l, as fix-2 does fix
          Commits,       \* versions a preview may have
          Users          \* clients

NoBranch == "none"

ASSUME PreviewAssumption ==
    /\ Sanitize \in [Branches -> Labels] /\ NoBranch \notin Branches
    /\ Extends \subseteq Labels \X Labels

NoPreview == [branch |-> NoBranch, ver |-> "none", expired |-> FALSE]

\* <app>-preview-<label>-<version>
PreviewName == [label : Labels, ver : Commits]

VARIABLES
    pctr,    \* what docker has under each name: "absent", "exited" or "running"
    proute,  \* labels whose route Caddy has; it leads to the alias of the label
    junk,    \* the Caddyfile has what was left of the markers of a cut block
    pst,     \* the state file of each label
    user     \* the running commands

previewVars == <<pctr, proute, junk, pst, user>>

PreviewState == [branch : Branches, ver : Commits, expired : BOOLEAN]

NoCommand == [pc |-> "idle", op |-> "none", branch |-> NoBranch, ver |-> "none",
              todo |-> {}, own |-> FALSE, victim |-> NoPreview, at |-> "none"]

\* todo: labels still to destroy; own: its branch's label is to be destroyed
\* after these; at, victim: the label being destroyed and its state as read.
PreviewTypeOK ==
    /\ pctr \in [PreviewName -> {"absent", "exited", "running"}]
    /\ proute \subseteq Labels /\ junk \in BOOLEAN
    /\ pst \in [Labels -> PreviewState \cup {NoPreview}]
    /\ user \in [Users ->
            [pc : {"idle", "list", "next", "stop", "unroute", "forget", "run", "port",
                   "route", "undo", "save"},
             op : {"none", "deploy", "destroy", "prune"},
             branch : Branches \cup {NoBranch}, ver : Commits \cup {"none"},
             todo : SUBSET Labels, own : BOOLEAN,
             victim : PreviewState \cup {NoPreview}, at : Labels \cup {"none"}]]

PreviewInit ==
    /\ pctr = [c \in PreviewName |-> "absent"]
    /\ proute = {} /\ junk = FALSE
    /\ pst = [l \in Labels |-> NoPreview]
    /\ user = [u \in Users |-> NoCommand]

UserGo(u, label) == user' = [user EXCEPT ![u].pc = label]
UserAt(u, label) == user[u].pc = label
UserDone(u)      == user' = [user EXCEPT ![u] = NoCommand]
Label(u)         == Sanitize[user[u].branch]
Fresh(u)         == [label |-> Label(u), ver |-> user[u].ver]
Victim(u)        == [label |-> user[u].at, ver |-> user[u].victim.ver]

-----------------------------------------------------------------------------
Race == IF \E u \in Users : ~UserAt(u, "idle") THEN {"race"} ELSE {}

Collision(b) == IF pst[Sanitize[b]].branch \in {b, NoBranch} THEN {} ELSE {"collision"}

\* `deploy` prunes, destroys the branch's preview and makes a new one;
\* `destroy` only does the second, `prune` the first.
StartPreview(u, b, v) ==
    /\ UserAt(u, "idle")
    /\ BeginAs(Race \cup Collision(b))
    /\ user' = [user EXCEPT ![u] = [NoCommand EXCEPT !.pc = "list", !.op = "deploy",
                                        !.branch = b, !.ver = v, !.own = TRUE]]
    /\ UNCHANGED <<pctr, proute, junk, pst>>

StartDestroy(u, b) ==
    /\ UserAt(u, "idle")
    /\ BeginAs(Race \cup Collision(b))
    /\ user' = [user EXCEPT ![u] = [NoCommand EXCEPT !.pc = "next", !.op = "destroy",
                                        !.branch = b, !.own = TRUE]]
    /\ UNCHANGED <<pctr, proute, junk, pst>>

StartPrune(u) ==
    /\ UserAt(u, "idle")
    /\ BeginAs(Race)
    /\ user' = [user EXCEPT ![u] = [NoCommand EXCEPT !.pc = "list", !.op = "prune"]]
    /\ UNCHANGED <<pctr, proute, junk, pst>>

\* List and the comparison with the clock; files that cannot be read are left out.
ListExpired(u) ==
    /\ UserAt(u, "list")
    /\ LET expired == {l \in Labels : pst[l].expired}
       IN \E seen \in SUBSET expired :
            /\ user' = [user EXCEPT ![u].pc = "next", ![u].todo = seen]
            /\ IF seen = expired THEN UNCHANGED luck ELSE Mishap("clean")
    /\ UNCHANGED <<pctr, proute, junk, pst>>

\* What is left to do of the command c after label l.
After(c, l) == [c EXCEPT !.todo = c.todo \ {l}, !.own = c.own /\ c.todo # {}]

\* Destroy reads the state again, but not the clock; no state, nothing to do.
Destroy(u, l) ==
    /\ UserAt(u, "next")
    /\ IF user[u].todo # {} THEN l \in user[u].todo ELSE user[u].own /\ l = Label(u)
    /\ \/ /\ pst[l] # NoPreview
          /\ user' = [user EXCEPT ![u] = [After(user[u], l) EXCEPT
                                              !.pc = "stop", !.at = l, !.victim = pst[l]]]
          /\ UNCHANGED luck
       \/ /\ user' = [user EXCEPT ![u] = After(user[u], l)]
          /\ IF pst[l] = NoPreview THEN UNCHANGED luck ELSE Mishap("clean")
    /\ UNCHANGED <<pctr, proute, junk, pst>>

\* docker stop, docker rm
StopVictim(u) ==
    /\ UserAt(u, "stop")
    /\ UserGo(u, "unroute")
    /\ \/ pctr' = [pctr EXCEPT ![Victim(u)] = "absent"] /\ UNCHANGED luck
       \/ /\ pctr[Victim(u)] # "absent"
          /\ pctr' \in {pctr, [pctr EXCEPT ![Victim(u)] = "exited"]}
          /\ Mishap("clean")
    /\ UNCHANGED <<proute, junk, pst>>

\* An edit of the Caddyfile removes every block whose markers contain those of
\* label l, so the blocks of labels that extend it too, and leaves the rest of
\* their last lines in the file, now and at every later edit.  Caddy takes that
\* for an empty site, or rejects the file, which then is put back.
Cut(l) == {m \in proute : <<l, m>> \in Extends}
Cuts(l) == Used(IF Cut(l) = {} THEN {} ELSE {"prefix"})

Edited(l, own) ==
    /\ proute' = (proute \ (Cut(l) \cup {l})) \cup own
    /\ junk' = (junk \/ Cut(l) # {})
    /\ Cuts(l)

Rejected(l) ==
    /\ junk \/ Cut(l) # {}
    /\ UNCHANGED <<proute, junk>>
    /\ Cuts(l)

Unroute(u) ==
    /\ UserAt(u, "unroute")
    /\ UserGo(u, "forget")
    /\ \/ Edited(user[u].at, {})
       \/ Rejected(user[u].at)
       \/ UNCHANGED <<proute, junk>> /\ Mishap("clean")
    /\ UNCHANGED <<pctr, pst>>

\* rm -f of the state file, whatever came of the rest
Forget(u) ==
    /\ UserAt(u, "forget")
    /\ user' = [user EXCEPT ![u].pc = "next", ![u].at = "none", ![u].victim = NoPreview]
    /\ \/ pst' = [pst EXCEPT ![user[u].at] = NoPreview] /\ UNCHANGED luck
       \/ UNCHANGED pst /\ Mishap("clean")
    /\ UNCHANGED <<pctr, proute, junk>>

Destroyed(u) ==
    /\ UserAt(u, "next")
    /\ user[u].todo = {} /\ ~user[u].own
    /\ IF user[u].op = "deploy" THEN UserGo(u, "run") ELSE UserDone(u)
    /\ UNCHANGED <<pctr, proute, junk, pst, luck>>

\* docker run, which removes a stopped container of the name and refuses a
\* running one; a port is chosen before.
RunPreview(u) ==
    /\ UserAt(u, "run")
    /\ \/ /\ pctr[Fresh(u)] # "running"
          /\ pctr' = [pctr EXCEPT ![Fresh(u)] = "running"]
          /\ UserGo(u, "port")
          /\ UNCHANGED luck
       \/ /\ pctr[Fresh(u)] = "running"
          /\ UNCHANGED <<pctr, luck>>
          /\ UserDone(u)
       \/ /\ pctr[Fresh(u)] # "running"
          /\ pctr' \in {pctr, [pctr EXCEPT ![Fresh(u)] = "absent"],
                              [pctr EXCEPT ![Fresh(u)] = "exited"]}
          /\ Mishap("fault")
          /\ UserDone(u)
    /\ UNCHANGED <<proute, junk, pst>>

InternalPort(u) ==
    /\ UserAt(u, "port")
    /\ \/ UserGo(u, "route") /\ UNCHANGED luck
       \/ UserGo(u, "undo") /\ Mishap("fault")
    /\ UNCHANGED <<pctr, proute, junk, pst>>

\* Mutant: a failed route ends the command.
SetRouteOrEnd(u) ==
    /\ UserAt(u, "route")
    /\ \/ Edited(Label(u), {Label(u)}) /\ UserGo(u, "save")
       \/ Rejected(Label(u)) /\ UserDone(u)
       \/ UNCHANGED <<proute, junk>> /\ UserDone(u) /\ Mishap("fault")
    /\ UNCHANGED <<pctr, pst>>

SetPreviewRoute(u) ==
    /\ UserAt(u, "route")
    /\ \/ Edited(Label(u), {Label(u)}) /\ UserGo(u, "save")
       \/ Rejected(Label(u)) /\ UserGo(u, "undo")
       \/ UNCHANGED <<proute, junk>> /\ UserGo(u, "undo") /\ Mishap("fault")
    /\ UNCHANGED <<pctr, pst>>

\* docker stop, docker rm of the new container
UndoPreview(u) ==
    /\ UserAt(u, "undo")
    /\ UserDone(u)
    /\ \/ pctr' = [pctr EXCEPT ![Fresh(u)] = "absent"] /\ UNCHANGED luck
       \/ pctr' \in {pctr, [pctr EXCEPT ![Fresh(u)] = "exited"]} /\ Mishap("clean")
    /\ UNCHANGED <<proute, junk, pst>>

SavePreview(u) ==
    /\ UserAt(u, "save")
    /\ UserDone(u)
    /\ \/ /\ pst' = [pst EXCEPT ![Label(u)] =
                        [branch |-> user[u].branch, ver |-> user[u].ver, expired |-> FALSE]]
          /\ UNCHANGED luck
       \/ UNCHANGED pst /\ Mishap("save")
    /\ UNCHANGED <<pctr, proute, junk>>

UserDies(u) ==
    /\ ~UserAt(u, "idle")
    /\ Mishap("crash")
    /\ UserDone(u)
    /\ UNCHANGED <<pctr, proute, junk, pst>>

-----------------------------------------------------------------------------
\* Its time to live is over.
Expire(l) ==
    /\ pst[l] # NoPreview /\ ~pst[l].expired
    /\ pst' = [pst EXCEPT ![l].expired = TRUE]
    /\ UNCHANGED <<pctr, proute, junk, user, luck>>

\* The app's own commands take previews for the app's versions, whose labels
\* they bear: PruneVersions (keep_versions) removes those of an old version,
\* `teploy stop` stops them.
AppTakes(v) ==
    /\ BeginAs({"stolen"})
    /\ \E s \in {"absent", "exited"} :
        pctr' = [c \in PreviewName |->
                    IF c.ver = v /\ pctr[c] = "running" THEN s ELSE pctr[c]]
    /\ UNCHANGED <<proute, junk, pst, user>>

\* And <app> is the beginning of the names under which its previews have their
\* blocks: what sets or removes the route of the app cuts all of theirs, unless
\* it fails because of what is left of them.
AppCuts ==
    /\ proute # {}
    /\ BeginAs({"stolen"})
    /\ proute' = {} /\ junk' = TRUE
    /\ UNCHANGED <<pctr, pst, user>>

PreviewStep(u) ==
    \/ ListExpired(u) \/ Destroyed(u) \/ StopVictim(u) \/ Unroute(u) \/ Forget(u)
    \/ RunPreview(u) \/ InternalPort(u) \/ SetPreviewRoute(u) \/ UndoPreview(u)
    \/ SavePreview(u) \/ UserDies(u)
    \/ \E l \in Labels : Destroy(u, l)

PreviewNext ==
    \/ \E u \in Users : PreviewStep(u) \/ StartPrune(u)
    \/ \E u \in Users, b \in Branches : StartDestroy(u, b)
    \/ \E u \in Users, b \in Branches, v \in Commits : StartPreview(u, b, v)
    \/ \E l \in Labels : Expire(l)
    \/ AppCuts
    \/ \E v \in Commits : AppTakes(v)

-----------------------------------------------------------------------------
\* What runs, what is routed and what is listed are the same previews when no
\* command is under way, whatever deploys failed: nothing outlives its time to
\* live unseen.  It takes a clean-up or a write of state that fails, a process
\* that dies, two commands at a time, labels that extend one another, or a deploy
\* of the app itself to part them.
PreviewsAgree ==
    (\A u \in Users : UserAt(u, "idle")) /\ NoneOf({"clean", "save", "crash", "race", "stolen", "prefix"})
        => /\ proute = {l \in Labels : pst[l] # NoPreview}
           /\ {c \in PreviewName : pctr[c] = "running"}
                = {[label |-> l, ver |-> pst[l].ver] : l \in proute}

\* A preview that has not expired is taken down, in whole or in part, only by a
\* command for its branch, whatever fails and whoever dies.  Presupposed are no
\* two commands at a time (prune does not look at the clock again when it reads
\* the state again), no two branches of one label, no live label that extends
\* another's, and no command of the app itself.
TakesDown(l) ==
    \/ pst'[l] = NoPreview
    \/ l \in proute /\ l \notin proute'
    \/ LET c == [label |-> l, ver |-> pst[l].ver]
       IN pctr[c] = "running" /\ pctr'[c] # "running"

LivePreviewStays ==
    \A l \in Labels :
        /\ pst[l] # NoPreview /\ ~pst[l].expired /\ TakesDown(l)
        /\ luck'.had \cap {"race", "collision", "stolen", "prefix"} = {}
        => \E u \in Users : user[u].branch = pst[l].branch

\* Both, of every step: nothing of a preview is left behind, and nothing is
\* taken from one that lives.
PreviewsHold == [][PreviewsAgree' /\ LivePreviewStays]_previewVars
=============================================================================
