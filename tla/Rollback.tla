------------------------------ MODULE Rollback ------------------------------
(***************************************************************************)
(* Rollback: the containers of an earlier version are recreated, probed,   *)
(* routed to and recorded, then those of the current version are stopped.  *)
(* It takes no lock.  It finds containers by their version label in one    *)
(* listing, where Deploy goes by names.                                    *)
(***************************************************************************)
EXTENDS AppServer

VARIABLE r   \* the running rollback

rollbackVars == <<serverVars, r>>

RLabels == {"idle", "list", "displace", "remove", "rerun", "route", "commit", "restore",
            "stopold", "undo", "undoremove", "undorerun", "discard"}

NoRollback == [pc |-> "idle", target |-> NoVersion, cur |-> NoState, todo |-> {},
               started |-> {}, displaced |-> {}, seen |-> {}, live |-> {}, at |-> {}]

RollbackTypeOK ==
    r \in [pc : RLabels, target : Versions \cup {NoVersion}, cur : State,
           todo : SUBSET Name, started : SUBSET Name, displaced : SUBSET Name,
           seen : SUBSET Name,    \* containers in the listing
           live : SUBSET Name,    \* those it showed as running
           at : SUBSET Name]      \* the container being recreated, when removed

RollbackInit == r = NoRollback

RAt(label)         == r.pc = label /\ r.todo = {}
RGoto(label, todo) == r' = [r EXCEPT !.pc = label, !.todo = todo]
RDone(c)           == r' = [r EXCEPT !.todo = @ \ {c}]
RLoop(label, c)    == r.pc = label /\ c \in r.todo
EndRollback        == r' = NoRollback

Web(C) == {c \in C : c.proc = "web"}

Target    == {c \in r.seen : c.ver = r.target}
TargetWeb == Web(r.started)

\* The current version's web containers, as far as the listing knows.
OriginalWeb == {c \in Web(r.live) : c.ver = r.cur.cur}

-----------------------------------------------------------------------------
(* Steps 1 and 2: resolve the target, list, free the fixed port of host    *)
(* ingress, recreate the target's containers.                              *)

RollbackBegins(t) ==
    /\ r.pc = "idle"
    /\ st.cur # NoVersion
    /\ t # st.cur
    /\ Spend("ops")
    /\ r' = [NoRollback EXCEPT !.pc = "list", !.target = t, !.cur = st]
    /\ UNCHANGED <<ctr, route, st>>

ListContainers ==
    /\ r.pc = "list"
    /\ LET seen == {c \in Name : Present(c)}
           rest == {c \in seen : c.ver = r.target}
       IN r' = [r EXCEPT !.seen = seen,
                         !.live = {c \in seen : Running(c)},
                         !.pc = IF ingress = "host" THEN "displace" ELSE "remove",
                         !.todo = IF ingress = "host" THEN Web(seen) \ rest ELSE rest]
    /\ UNCHANGED serverVars

ListFails ==
    /\ r.pc = "list"
    /\ CommandFails
    /\ EndRollback
    /\ UNCHANGED <<route, st>>

\* docker stop of every other version's web container, running or not.
RDisplace(c) ==
    /\ RLoop("displace", c)
    /\ Present(c)
    /\ StopSucceeds(c)
    /\ r' = [r EXCEPT !.todo = @ \ {c}, !.displaced = @ \cup {c}]
    /\ UNCHANGED <<route, st>>

RDisplaceFails(c) ==
    /\ RLoop("displace", c)
    /\ IF Present(c) THEN CommandFails ELSE UNCHANGED <<ctr, budget>>
    /\ EndRollback
    /\ UNCHANGED <<route, st>>

RDisplaced == RAt("displace") /\ RGoto("remove", Target) /\ UNCHANGED serverVars

\* Restart: docker inspect, docker rm -f ...
RemoveTarget(c) ==
    /\ RLoop("remove", c)
    /\ Present(c)
    /\ ctr' = Removed(c)
    /\ r' = [r EXCEPT !.pc = "rerun", !.at = {c}]
    /\ UNCHANGED <<route, st, budget>>

RemoveTargetFails(c) ==
    /\ RLoop("remove", c)
    /\ IF Present(c) THEN CommandFails ELSE UNCHANGED <<ctr, budget>>
    /\ EndRollback
    /\ UNCHANGED <<route, st>>

\* ... docker run.
RunTarget(c) ==
    /\ r.pc = "rerun" /\ c \in r.at
    /\ RecreateSucceeds(c)
    /\ r' = [r EXCEPT !.pc = "remove", !.at = {}, !.todo = @ \ {c},
                     !.started = @ \cup {c}]
    /\ UNCHANGED <<route, st>>

RunTargetFails(c) ==
    /\ r.pc = "rerun" /\ c \in r.at
    /\ RecreateFails(c)
    /\ EndRollback
    /\ UNCHANGED <<route, st>>

NoTarget == RAt("remove") /\ TargetWeb = {} /\ EndRollback /\ UNCHANGED serverVars

-----------------------------------------------------------------------------
(* Steps 3 to 6: probe, route, commit, stop the superseded containers.     *)

RProbePasses ==
    /\ RAt("remove")
    /\ TargetWeb # {}
    /\ \A c \in TargetWeb : Running(c)
    /\ ctr' = Proven(TargetWeb)
    /\ RGoto(IF ingress = "caddy" THEN "route" ELSE "commit", {})
    /\ UNCHANGED <<route, st, budget>>

\* docker inspect finds no published port to probe: nothing is undone.
RProbeBreaks ==
    /\ RAt("remove")
    /\ TargetWeb # {}
    /\ IF \A c \in TargetWeb : Running(c) THEN CommandFails ELSE UNCHANGED <<ctr, budget>>
    /\ EndRollback
    /\ UNCHANGED <<route, st>>

RProbeFails ==
    /\ RAt("remove")
    /\ TargetWeb # {}
    /\ RGoto("undo", r.started)
    /\ UNCHANGED serverVars

RRoute ==
    /\ r.pc = "route"
    /\ route' = TargetWeb
    /\ RGoto("commit", {})
    /\ UNCHANGED <<ctr, st, budget>>

RRouteFails ==
    /\ r.pc = "route"
    /\ IF \A c \in TargetWeb : Present(c) THEN CommandFails ELSE UNCHANGED <<ctr, budget>>
    /\ EndRollback
    /\ UNCHANGED <<route, st>>

RCommit ==
    /\ r.pc = "commit"
    /\ st' = [cur |-> r.target, reps |-> Cardinality(TargetWeb), prev |-> r.cur.cur]
    /\ RGoto("stopold", {c \in r.live : c.ver = r.cur.cur})
    /\ UNCHANGED <<ctr, route, budget>>

RCommitFails ==
    /\ r.pc = "commit"
    /\ CommandFails
    /\ IF ingress = "caddy" THEN RGoto("restore", {}) ELSE RGoto("discard", r.started)
    /\ UNCHANGED <<route, st>>

RStopOld(c) ==
    /\ RLoop("stopold", c)
    /\ StopSucceeds(c) \/ CommandFails
    /\ RDone(c)
    /\ UNCHANGED <<route, st>>

RolledBack ==
    /\ RAt("stopold") \/ RAt("discard") \/ RAt("undoremove")
    /\ EndRollback
    /\ UNCHANGED serverVars

-----------------------------------------------------------------------------
(* Undoing: restoreRollbackRoute after a failed commit, and the end of a   *)
(* failed health check.                                                    *)

OriginalFound == OriginalWeb # {} /\ \A c \in OriginalWeb : Present(c)

RRestore ==
    /\ r.pc = "restore"
    /\ OriginalFound
    /\ route' = OriginalWeb
    /\ RGoto("discard", r.started)
    /\ UNCHANGED <<ctr, st, budget>>

\* "original and target workloads were left running"
RRestoreFails ==
    /\ r.pc = "restore"
    /\ IF OriginalFound THEN CommandFails ELSE UNCHANGED <<ctr, budget>>
    /\ EndRollback
    /\ UNCHANGED <<route, st>>

\* docker stop of what was started; errors are ignored.
RDiscard(c) ==
    /\ r.pc \in {"discard", "undo"}
    /\ c \in r.todo
    /\ StopSucceeds(c) \/ CommandFails
    /\ RDone(c)
    /\ UNCHANGED <<route, st>>

RUndone == RAt("undo") /\ RGoto("undoremove", r.displaced) /\ UNCHANGED serverVars

\* Every displaced container is recreated, or a warning printed.
UndoRemove(c) ==
    /\ RLoop("undoremove", c)
    /\ \/ /\ Present(c)
          /\ ctr' = Removed(c)
          /\ r' = [r EXCEPT !.pc = "undorerun", !.at = {c}]
          /\ UNCHANGED budget
       \/ ~Present(c) /\ RDone(c) /\ UNCHANGED <<ctr, budget>>
       \/ CommandFails /\ RDone(c)
    /\ UNCHANGED <<route, st>>

UndoRerun(c) ==
    /\ r.pc = "undorerun" /\ c \in r.at
    /\ RecreateSucceeds(c) \/ RecreateFails(c)
    /\ r' = [r EXCEPT !.pc = "undoremove", !.at = {}, !.todo = @ \ {c}]
    /\ UNCHANGED <<route, st>>

RollbackDies ==
    /\ r.pc # "idle"
    /\ Spend("crashes")
    /\ EndRollback
    /\ UNCHANGED <<ctr, route, st>>

-----------------------------------------------------------------------------

RollbackStep ==
    \/ ListContainers \/ ListFails \/ RDisplaced \/ NoTarget
    \/ RProbePasses \/ RProbeBreaks \/ RProbeFails \/ RRoute \/ RRouteFails
    \/ RCommit \/ RCommitFails \/ RolledBack
    \/ RRestore \/ RRestoreFails \/ RUndone
    \/ \E c \in r.todo :
        \/ RDisplace(c) \/ RDisplaceFails(c)
        \/ RemoveTarget(c) \/ RemoveTargetFails(c)
        \/ RunTarget(c) \/ RunTargetFails(c)
        \/ RStopOld(c) \/ RDiscard(c) \/ UndoRemove(c) \/ UndoRerun(c)

RollbackNext ==
    \/ \E t \in Versions : RollbackBegins(t)
    \/ RollbackStep
    \/ RollbackDies
=============================================================================
