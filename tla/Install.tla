------------------------------- MODULE Install -------------------------------
(***************************************************************************)
(* The installation of Nexarl Forge and its transitions: install, update,  *)
(* rollback, repair, hooks repair, start, first run and uninstall          *)
(* (scripts/vibe_memory_install.py, scripts/vibe_memory_cli.py and the     *)
(* first run of scripts/vibe_memory_settings.py), with the writer of the   *)
(* agents' hook configuration (scripts/vibe_memory_hooks.py).              *)
(*                                                                         *)
(* All commands run under one lifecycle lock, so one runs at a time; next  *)
(* to it other programs edit the hook configuration, someone re-points     *)
(* "current", and the command may die.  A command is the sequence of its   *)
(* steps.  Any step may fail, before its effect or after it, and then the  *)
(* command goes on with the steps of its cleanup, which knows of an effect *)
(* only what the command has noted or what it finds.  A step of a cleanup  *)
(* fails before its effect.  Checks without an effect (source, control     *)
(* plane, rendering) are failures of the step that follows them.           *)
(*                                                                         *)
(* A hook configuration is whether it holds the managed entries and the    *)
(* number of the last edit by another program it holds.  Darwin's exchange *)
(* of two names is the code path modelled: the installer runs nowhere else.*)
(***************************************************************************)
EXTENDS Integers, Sequences, FiniteSets

CONSTANTS
    Versions,       \* versions a clone may hold, positive integers
    MaxCommands,    \* bound on the commands started
    MaxIncidents    \* bound on the failed steps, edits, new links and deaths together

ASSUME VersionsAssumption == Versions \subseteq Nat \ {0}
ASSUME BoundsAssumption == {MaxCommands, MaxIncidents} \subseteq Nat

VARIABLES
    current,        \* the link "current": its release and its identity
    releases,       \* the releases installed
    quarantined,    \* releases the uninstall has moved aside, where no later command looks
    files,          \* the managed files: config, launcher, agent, state, action
    hook,           \* the hook configuration
    kept,           \* edits held by backups and conflict files next to it
    service,        \* the version the console runs, None when it is stopped
    cmd, todo, cleaning,  \* the command, the steps it has left, whether they clean up
    errors,         \* a step of the cleanup failed
    target,         \* the version the command is about
    login,          \* the choice "start at login" the command applies
    before,         \* what the command found (its snapshots)
    mine,           \* what the command remembers having done
    writer,         \* where its change of the hook configuration stands
    scheduled,      \* generation of the scheduled stop of the service, 0 when none
    links, gens, edits,     \* counters: links made, generations, edits
    commands, incidents,    \* counters for the bounds
    last, outcome,  \* (history) the last command and how it ended
    relinked,       \* (history) someone has pointed "current" elsewhere
    disturbed,      \* (history) another program or a failing cleanup interfered
    torn,           \* (history) what a step changed that failed without noting it
    conflicted,     \* (history) some cleanup has reported a failure
    asked           \* (history) the last command to settle the service asked to stop it

disk == <<current, releases, quarantined, files, hook, kept, service>>
command == <<cmd, todo, cleaning, errors, target, login, before, mine, writer>>
counters == <<links, gens, edits, commands, incidents>>
history == <<last, outcome, relinked, disturbed, torn, conflicted, asked>>
vars == <<disk, command, scheduled, counters, history>>

None == 0
NoLink == [to |-> None, id |-> 0]
NoHook == [ours |-> FALSE, edit |-> -1]
NoFiles == [config |-> [version |-> None, login |-> TRUE], launcher |-> FALSE,
            agent |-> "absent", state |-> [current |-> None, previous |-> None],
            action |-> [gen |-> 0, login |-> TRUE]]
NoWriter == [at |-> "idle", source |-> NoHook, temp |-> NoHook, seen |-> {}]
Fresh == [link |-> NoLink, hook |-> NoHook, noted |-> FALSE, backup |-> -1, gen |-> 0,
          release |-> FALSE, attempted |-> FALSE, pending |-> FALSE, stopped |-> FALSE,
          dropped |-> FALSE, spared |-> "none"]

\* The copies made so far, of edits by other programs only.
Keeping(copies) == kept \cup (copies \ {-1, 0})

Snapshot == [current |-> current, releases |-> releases, files |-> files,
             hook |-> hook, kept |-> kept, service |-> service]

\* Either nothing is installed, or a version is and its console runs.
Init ==
    /\ \E v \in Versions \cup {None} :
        IF v = None
        THEN /\ current = NoLink /\ releases = {} /\ files = NoFiles
             /\ hook \in {NoHook, [ours |-> FALSE, edit |-> 0]} /\ service = None
        ELSE /\ current = [to |-> v, id |-> 1] /\ releases = {v} /\ service = v
             /\ files = [config |-> [version |-> v, login |-> TRUE], launcher |-> TRUE,
                         agent |-> "login", state |-> [current |-> v, previous |-> None],
                         action |-> [gen |-> 1, login |-> TRUE]]
             /\ hook = [ours |-> TRUE, edit |-> 0]
    /\ quarantined = {} /\ kept = {} /\ scheduled = 0
    /\ cmd = "none" /\ todo = <<>> /\ cleaning = FALSE /\ errors = FALSE
    /\ target = None /\ login = TRUE
    /\ before = Snapshot /\ mine = Fresh /\ writer = NoWriter
    /\ links = 1 /\ gens = 1 /\ edits = 0
    /\ commands = 0 /\ incidents = 0 /\ relinked = FALSE
    /\ last = "none" /\ outcome = "none" /\ disturbed = FALSE /\ torn = {}
    /\ conflicted = FALSE /\ asked = FALSE
-----------------------------------------------------------------------------
(* The commands *)

Begin(c, v, choice, steps) ==
    /\ cmd = "none" /\ commands < MaxCommands
    /\ cmd' = c /\ target' = v /\ login' = choice /\ todo' = steps
    /\ cleaning' = FALSE /\ errors' = FALSE /\ mine' = Fresh /\ before' = Snapshot
    /\ commands' = commands + 1 /\ disturbed' = FALSE /\ torn' = torn \cap {"dangling"}
    /\ outcome' = "none"
    /\ UNCHANGED <<disk, writer, scheduled, links, gens, edits, incidents, relinked,
                   last, conflicted, asked>>

Update(v) ==
    Begin("update", v, files.config.login,
          <<"publish", "config", "launcher", "activate", "agent", "hooks", "state",
            "service", "smoke", "done">>)

\* A slip: the state file is left as it was.
RollbackForgetsState ==
    /\ files.state.previous # None
    /\ Begin("rollback", files.state.previous, files.config.login,
             <<"activate", "config", "launcher", "agent", "hooks",
               "service", "smoke", "done">>)

Rollback ==
    /\ files.state.previous # None
    /\ Begin("rollback", files.state.previous, files.config.login,
             <<"activate", "config", "launcher", "agent", "hooks", "state",
               "service", "smoke", "done">>)

Repair ==
    /\ current.to \in releases
    /\ Begin("repair", current.to, files.config.login,
             <<"config", "launcher", "agent", "hooks", "state", "service", "smoke", "done">>)

InstallCommand(v) ==
    /\ current.to \in releases \cup {None}
    /\ Begin("install", v, files.config.login,
             <<"publish", "activate", "config", "launcher", "agent", "hooks", "state",
               "pending", "service", "smoke", "done">>)

HooksRepair ==
    /\ files.state.current # None /\ files.launcher
    /\ current.to = files.state.current /\ current.to \in releases
    /\ Begin("hooks", current.to, files.config.login, <<"hooks", "smoke">>)

StartCommand ==
    /\ current.to = files.config.version /\ current.to \in releases
    /\ Begin("start", current.to, files.config.login,
             <<"agent", "pending", "service", "done">>)

\* The first run is asked of the running console; the agent file and the service
\* are touched for the choice of starting at login.
FirstRun(choice) ==
    /\ service # None /\ files.config.version # None
    /\ Begin("first", files.config.version, choice,
             <<"config", "hooks", "agent", "done", "service">>)

Uninstall ==
    Begin("uninstall", current.to, files.config.login,
          <<"bootout", "unhook", "unlink", "drop", "quarantine", "delete">>)

Cleanup(c) ==
    CASE c = "update" -> <<"bootout", "files", "rehook", "version", "service", "release">>
      [] c = "rollback" -> <<"bootout", "files", "rehook", "version", "service">>
      [] c = "repair" -> <<"bootout", "files", "rehook", "service">>
      [] c = "install" -> <<"unpend", "bootout", "clirehook", "files", "version", "service",
                            "release", "forget">>
      [] c = "hooks" -> <<"clirehook">>
      [] c = "start" -> <<"unpend", "bootout", "files">>
      [] c = "first" -> <<"bootout", "files", "rehook", "service">>
      [] OTHER -> <<"unquarantine", "files", "rehook", "version", "service">>
-----------------------------------------------------------------------------
(* What a step does to the command *)

Doing(step) == cmd # "none" /\ ~cleaning /\ todo # <<>> /\ Head(todo) = step
Undoing(step) == cmd # "none" /\ cleaning /\ todo # <<>> /\ Head(todo) = step

Steady == UNCHANGED <<cmd, target, login, before, scheduled, edits, commands, relinked,
                      outcome, last, disturbed, asked>>
Advance == todo' = Tail(todo) /\ UNCHANGED <<cleaning, errors, conflicted, incidents, torn>> /\ Steady
Repeat == UNCHANGED <<todo, cleaning, errors, conflicted, incidents, torn>> /\ Steady

\* A failure: the cleanup begins, or it records the failure and goes on.  An update that
\* could not put the version back does not start it either; a first run that failed in a
\* write reports that file as one it cannot put back.
Failing ==
    /\ todo' = IF ~cleaning THEN Cleanup(cmd)
               ELSE IF cmd = "update" /\ Head(todo) = "version" THEN Tail(Tail(todo))
               ELSE Tail(todo)
    /\ cleaning' = TRUE
    /\ LET reported == cleaning \/ (cmd = "first" /\ ~Doing("service"))
       IN errors' = (errors \/ reported) /\ conflicted' = (conflicted \/ reported)
    /\ Steady
Conflict == Failing /\ UNCHANGED <<incidents, torn>>
Breaks == incidents < MaxIncidents /\ incidents' = incidents + 1 /\ Failing
-----------------------------------------------------------------------------
(* The steps of the transitions *)

Publish ==
    /\ Doing("publish")
    /\ releases' = releases \cup {target}
    /\ mine' = [mine EXCEPT !.release = target \notin releases]
    /\ Advance
    /\ UNCHANGED <<current, quarantined, files, hook, kept, service, writer, links, gens>>

Switch(version) == current' = [to |-> version, id |-> links + 1] /\ links' = links + 1

\* The exchange of the link and the check of what it displaced, with what is put back.
Exchange(version, expected) ==
    IF current = expected /\ version \in releases
    THEN Switch(version) /\ Advance
    ELSE UNCHANGED <<current, links>> /\ Conflict

Activate ==
    /\ Doing("activate")
    /\ Exchange(target, before.current)
    /\ mine' = [mine EXCEPT !.attempted = TRUE,
                            !.link = IF cleaning' THEN NoLink ELSE current']
    /\ UNCHANGED <<releases, quarantined, files, hook, kept, service, writer, gens>>

\* The version a later rollback goes back to.
Previous ==
    CASE cmd \in {"update", "rollback"} -> before.current.to
      [] cmd = "install" -> before.files.state.previous
      [] OTHER -> IF files.state.previous = target THEN None ELSE files.state.previous

NewConfig == [version |-> target, login |-> login]

\* The first run removes an agent that does not start at login.
NewAgent == IF login THEN "login" ELSE IF cmd = "first" THEN "absent" ELSE "session"

NewState == [current |-> target, previous |-> Previous]

Written(step) ==
    CASE step = "config" -> [files EXCEPT !.config = NewConfig]
      [] step = "launcher" -> [files EXCEPT !.launcher = TRUE]
      [] step = "agent" -> [files EXCEPT !.agent = NewAgent]
      [] step = "state" -> [files EXCEPT !.state = NewState]
      [] OTHER -> files

WriteFile ==
    /\ \E step \in {"config", "launcher", "agent", "state"} :
           Doing(step) /\ files' = Written(step)
    /\ Advance
    /\ UNCHANGED <<current, releases, quarantined, hook, kept, service, mine, writer, links, gens>>

NewAction == /\ files' = [files EXCEPT !.action = [gen |-> gens + 1, login |-> login]]
             /\ gens' = gens + 1

\* The action file: pending before the service is touched, final after it.
WriteAction ==
    /\ Doing("pending") \/ Doing("done")
    /\ NewAction
    /\ mine' = [mine EXCEPT !.gen = gens + 1, !.pending = Doing("pending") \/ mine.pending]
    /\ Advance
    /\ UNCHANGED <<current, releases, quarantined, hook, kept, service, writer, links>>

\* The service answers with the version that "current" leads to.
Healthy(version) ==
    /\ files.agent # "absent" /\ files.config.version # None
    /\ current.to = version /\ version \in releases

StartService ==
    /\ Doing("service")
    /\ IF cmd = "first" /\ ~login THEN service' = service /\ Advance
       ELSE IF Healthy(target) THEN service' = target /\ Advance
       ELSE service' = None /\ Conflict
    /\ UNCHANGED <<current, releases, quarantined, files, hook, kept, mine, writer, links, gens>>

\* The hooks are run through the launcher and the current release.
Smoke ==
    /\ Doing("smoke")
    /\ IF files.launcher /\ current.to \in releases THEN Advance ELSE Conflict
    /\ UNCHANGED <<disk, mine, writer, links, gens>>

\* The command line stops the service only when it had begun to start it.
Bootout ==
    /\ Doing("bootout") \/ Undoing("bootout")
    /\ service' = IF cmd \in {"install", "start"} /\ ~mine.pending THEN service ELSE None
    /\ mine' = [mine EXCEPT !.stopped = service # None]
    /\ Advance
    /\ UNCHANGED <<current, releases, quarantined, files, hook, kept, writer, links, gens>>
-----------------------------------------------------------------------------
(* The steps of uninstall *)

FileOrder == <<"agent", "launcher", "config", "state", "action">>
Present == {i \in DOMAIN FileOrder : files[FileOrder[i]] # NoFiles[FileOrder[i]]}

\* The first file that is left goes.
Unlink(i) == /\ \A j \in Present : i <= j
             /\ files' = [files EXCEPT ![FileOrder[i]] = NoFiles[FileOrder[i]]]

UnlinkFile ==
    /\ Doing("unlink")
    /\ IF Present = {} THEN files' = files /\ Advance
       ELSE (\E i \in Present : Unlink(i)) /\ Repeat
    /\ UNCHANGED <<current, releases, quarantined, hook, kept, service, mine, writer, links, gens>>

DropCurrent ==
    /\ Doing("drop")
    /\ IF before.current = NoLink THEN UNCHANGED <<current, mine>> /\ Advance
       ELSE IF current = before.current
       THEN current' = NoLink /\ mine' = [mine EXCEPT !.dropped = TRUE] /\ Advance
       ELSE UNCHANGED <<current, mine>> /\ Conflict
    /\ UNCHANGED <<releases, quarantined, files, hook, kept, service, writer, links, gens>>

\* A slip: the release is copied aside instead of renamed.
QuarantineCopies ==
    /\ Doing("quarantine")
    /\ IF releases = {} THEN UNCHANGED <<releases, quarantined>> /\ Advance
       ELSE /\ \E r \in releases : releases' = releases /\ quarantined' = quarantined \cup {r}
            /\ Repeat
    /\ UNCHANGED <<current, files, hook, kept, service, mine, writer, links, gens>>

\* A release disappears in one rename and is deleted only when all of them have.
Quarantine ==
    /\ Doing("quarantine")
    /\ IF releases = {} THEN UNCHANGED <<releases, quarantined>> /\ Advance
       ELSE /\ \E r \in releases : releases' = releases \ {r} /\ quarantined' = quarantined \cup {r}
            /\ Repeat
    /\ UNCHANGED <<current, files, hook, kept, service, mine, writer, links, gens>>

DeleteQuarantined ==
    /\ Doing("delete")
    /\ IF quarantined = {} THEN quarantined' = {} /\ Advance
       ELSE (\E r \in quarantined : quarantined' = quarantined \ {r}) /\ Repeat
    /\ UNCHANGED <<current, releases, files, hook, kept, service, mine, writer, links, gens>>
-----------------------------------------------------------------------------
(* The writer of a hook configuration *)

Wanted == Head(todo) = "hooks"
Merged == [ours |-> Wanted, edit |-> IF writer.source = NoHook THEN 0 ELSE writer.source.edit]

\* These note what they find after their change, the install command also after a failure.
Noters == {"install", "first"}
Noting(h) == IF cmd \in Noters THEN [mine EXCEPT !.hook = h, !.noted = TRUE] ELSE mine
NotingFailure(h) == IF cmd = "install" THEN Noting(h) ELSE mine

\* Nothing to do, or the configuration is read and merged.  A first run may switch the
\* hooks off instead.
ReadHook ==
    /\ Doing("hooks") \/ Doing("unhook")
    /\ writer.at = "idle"
    /\ \/ /\ hook.ours = Wanted \/ (cmd = "first" /\ ~hook.ours)
          /\ mine' = Noting(hook) /\ writer' = writer /\ Advance
       \/ /\ hook.ours # Wanted
          /\ writer' = [writer EXCEPT !.at = "exchange", !.source = hook]
          /\ mine' = mine /\ Repeat
       \/ /\ cmd = "first" /\ hook.ours
          /\ writer' = [writer EXCEPT !.at = "plain", !.source = hook]
          /\ mine' = mine /\ Repeat
    /\ UNCHANGED <<disk, links, gens>>

\* The source changed before the exchange: the merged configuration is kept as an attempt.
RefuseHook ==
    /\ writer.at = "exchange" /\ hook # writer.source
    /\ kept' = Keeping({Merged.edit})
    /\ mine' = NotingFailure(hook) /\ writer' = NoWriter /\ Conflict
    /\ UNCHANGED <<current, releases, quarantined, files, hook, service, links, gens>>

\* A slip: the configuration is replaced, whatever it is by then.
ReplaceHook ==
    /\ writer.at = "exchange" /\ (writer.source = NoHook <=> hook = NoHook)
    /\ hook' = Merged /\ writer' = [writer EXCEPT !.at = "exchanged", !.temp = writer.source]
    /\ Repeat
    /\ UNCHANGED <<current, releases, quarantined, files, kept, service, mine, links, gens>>

ExchangeHook ==
    /\ writer.at = "exchange" /\ (writer.source = NoHook <=> hook = NoHook)
    /\ hook' = Merged /\ writer' = [writer EXCEPT !.at = "exchanged", !.temp = hook]
    /\ Repeat
    /\ UNCHANGED <<current, releases, quarantined, files, kept, service, mine, links, gens>>

\* What was displaced is the source and the new configuration is in place: committed, and
\* the source is kept as the backup; a file that took a free name needs no check.  Install
\* and first run note the file only afterwards.
CommitHook ==
    /\ writer.at = "exchanged" /\ writer.temp = writer.source
    /\ hook = Merged \/ writer.source = NoHook
    /\ kept' = Keeping({writer.temp.edit})
    /\ mine' = [mine EXCEPT !.hook = Merged, !.noted = cmd \notin Noters, !.backup = writer.temp.edit]
    /\ IF cmd \in Noters THEN writer' = [NoWriter EXCEPT !.at = "note"] /\ Repeat
                          ELSE writer' = NoWriter /\ Advance
    /\ UNCHANGED <<current, releases, quarantined, files, hook, service, links, gens>>

\* Another program replaced the new configuration: its file stays, the source is kept.
YieldHook ==
    /\ writer.at = "exchanged" /\ writer.temp = writer.source
    /\ hook # Merged /\ writer.source # NoHook
    /\ kept' = Keeping({writer.temp.edit})
    /\ mine' = NotingFailure(hook) /\ writer' = NoWriter /\ Conflict
    /\ UNCHANGED <<current, releases, quarantined, files, hook, service, links, gens>>

\* Something else than the source was displaced: a copy is kept and it is put back, again
\* for what that displaces, until the manager's own file or one seen before comes out.
RecoverHook ==
    /\ writer.at = "exchanged" /\ writer.temp # writer.source
    /\ kept' = Keeping({writer.temp.edit, Merged.edit})
    /\ IF writer.temp \in writer.seen
       THEN UNCHANGED hook /\ mine' = NotingFailure(hook) /\ writer' = NoWriter /\ Conflict
       ELSE /\ hook' = writer.temp
            /\ IF hook = Merged
               THEN mine' = NotingFailure(hook') /\ writer' = NoWriter /\ Conflict
               ELSE /\ writer' = [writer EXCEPT !.temp = hook, !.seen = @ \cup {writer.temp}]
                    /\ UNCHANGED mine /\ Repeat
    /\ UNCHANGED <<current, releases, quarantined, files, service, links, gens>>

\* The first run switches the hooks off by a plain replacement, with a backup.
ReplacePlainly ==
    /\ writer.at = "plain"
    /\ hook' = [ours |-> FALSE, edit |-> writer.source.edit]
    /\ kept' = Keeping({writer.source.edit})
    /\ writer' = [NoWriter EXCEPT !.at = "note"]
    /\ Repeat
    /\ UNCHANGED <<current, releases, quarantined, files, service, mine, links, gens>>

NoteHook ==
    /\ writer.at = "note"
    /\ mine' = [mine EXCEPT !.hook = hook, !.noted = TRUE]
    /\ writer' = NoWriter /\ Advance
    /\ UNCHANGED <<disk, links, gens>>
-----------------------------------------------------------------------------
(* The steps of the cleanups *)

\* The managed files that differ from the snapshots are put back one by one; install and
\* start leave the action file to the step that withdraws it.  Uninstall cannot claim a
\* file that it unlinked without noting it, and reports it.
RestoreFile ==
    /\ Undoing("files")
    /\ LET mending == DOMAIN files \ ({mine.spared} \cup
                         IF cmd \in {"install", "start"} THEN {"action"} ELSE {})
           changed == {f \in mending : files[f] # before.files[f]}
       IN IF changed # {}
          THEN (\E f \in changed : files' = [files EXCEPT ![f] = before.files[f]]) /\ Repeat
          ELSE /\ files' = files
               /\ IF cmd = "uninstall" /\ mine.spared # "none" THEN Conflict ELSE Advance
    /\ UNCHANGED <<current, releases, quarantined, hook, kept, service, mine, writer, links, gens>>

\* The pending action is withdrawn only if it is still the one that was written.
WithdrawAction ==
    /\ Undoing("unpend")
    /\ files' = IF mine.gen # 0 /\ files.action.gen = mine.gen
                THEN [files EXCEPT !.action = before.files.action] ELSE files
    /\ Advance
    /\ UNCHANGED <<current, releases, quarantined, hook, kept, service, mine, writer, links, gens>>

\* The hook configuration is claimed under a private name if it is what was committed
\* (or what was found, when nothing was).
ClaimHook ==
    /\ Undoing("rehook") /\ writer.at = "idle"
    /\ LET expected == IF mine.noted THEN mine.hook ELSE before.hook
       IN IF cmd = "first" /\ ~mine.noted THEN UNCHANGED <<hook, writer>> /\ Advance
          ELSE IF hook # expected THEN UNCHANGED <<hook, writer>> /\ Conflict
          ELSE IF hook = NoHook THEN UNCHANGED <<hook, writer>> /\ Advance
          ELSE /\ writer' = [NoWriter EXCEPT !.at = "claimed", !.temp = hook]
               /\ hook' = NoHook /\ Repeat
    /\ UNCHANGED <<current, releases, quarantined, files, kept, service, mine, links, gens>>

\* The old one takes the free name; a file that appeared there stays, and so does the
\* claimed one.
PutHookBack ==
    /\ writer.at = "claimed"
    /\ writer' = NoWriter
    /\ IF before.hook = NoHook THEN UNCHANGED <<hook, kept>> /\ Advance
       ELSE IF hook = NoHook THEN hook' = before.hook /\ UNCHANGED kept /\ Advance
       ELSE UNCHANGED hook /\ kept' = Keeping({writer.temp.edit}) /\ Conflict
    /\ UNCHANGED <<current, releases, quarantined, files, service, mine, links, gens>>

\* The command line compares and then replaces.
CompareHook ==
    /\ Undoing("clirehook") /\ writer.at = "idle"
    /\ IF mine.noted
       THEN IF hook = mine.hook THEN writer' = [NoWriter EXCEPT !.at = "replace"] /\ Repeat
            ELSE writer' = writer /\ Conflict
       ELSE writer' = writer /\ IF cmd = "hooks" /\ hook # before.hook THEN Conflict ELSE Advance
    /\ UNCHANGED <<disk, mine, links, gens>>

ReplaceWithOld ==
    /\ writer.at = "replace"
    /\ hook' = before.hook /\ writer' = NoWriter /\ Advance
    /\ UNCHANGED <<current, releases, quarantined, files, kept, service, mine, links, gens>>

\* An install that put everything back removes the backup it made.
ForgetBackup ==
    /\ Undoing("forget")
    /\ kept' = IF errors THEN kept ELSE (kept \ {mine.backup}) \cup before.kept
    /\ Advance
    /\ UNCHANGED <<current, releases, quarantined, files, hook, service, mine, writer, links, gens>>

\* "current" is put back if it is the link this command made; an install looks only at the
\* release it names.  An update that stopped no service and switched nothing has nothing
\* to put back and starts nothing.
RestoreVersion ==
    /\ Undoing("version")
    /\ IF /\ cmd = "update" /\ mine.link = NoLink
          /\ ~(before.current # NoLink /\ mine.attempted /\ mine.stopped)
       THEN /\ todo' = Tail(Tail(todo)) /\ UNCHANGED <<cleaning, errors, conflicted, incidents, torn>>
            /\ Steady /\ UNCHANGED <<current, links>>
       ELSE IF \/ current = before.current
               \/ cmd = "uninstall" /\ ~mine.dropped
               \/ cmd = "install" /\ current.to = before.current.to
       THEN UNCHANGED <<current, links>> /\ Advance
       ELSE IF cmd = "uninstall" THEN Exchange(before.current.to, NoLink)
       ELSE IF (cmd = "install" /\ current.to # target) \/ (cmd # "install" /\ current # mine.link)
       THEN UNCHANGED <<current, links>> /\ Conflict
       ELSE IF before.current = NoLink THEN current' = NoLink /\ UNCHANGED links /\ Advance
       ELSE Exchange(before.current.to, current)
    /\ UNCHANGED <<releases, quarantined, files, hook, kept, service, mine, writer, gens>>

\* The version the cleanup starts again, None when it starts nothing.
Restarted ==
    CASE cmd \in {"update", "install"} -> before.current.to
      [] cmd = "rollback" -> IF before.current = NoLink THEN before.files.state.current
                             ELSE before.current.to
      [] cmd = "repair" -> target
      [] cmd = "uninstall" -> IF mine.stopped THEN before.current.to ELSE None
      [] OTHER -> IF before.files.config.login /\ before.files.agent # "absent"
                  THEN files.config.version ELSE None

RestartService ==
    /\ Undoing("service")
    /\ IF Restarted = None THEN service' = service /\ Advance
       ELSE IF Healthy(Restarted) THEN service' = Restarted /\ Advance
       ELSE service' = None /\ Conflict
    /\ UNCHANGED <<current, releases, quarantined, files, hook, kept, mine, writer, links, gens>>

\* A slip: the release goes even when it was installed before.
RemovesAnyRelease ==
    /\ Undoing("release")
    /\ releases' = releases \ {target}
    /\ Advance
    /\ UNCHANGED <<current, quarantined, files, hook, kept, service, mine, writer, links, gens>>

\* An update reports a release that is new and not known to be its own.
RemoveRelease ==
    /\ Undoing("release")
    /\ IF mine.release THEN releases' = releases \ {target} /\ Advance
       ELSE /\ releases' = releases
            /\ IF cmd = "update" /\ target \in releases \ before.releases THEN Conflict ELSE Advance
    /\ UNCHANGED <<current, quarantined, files, hook, kept, service, mine, writer, links, gens>>

\* A slip: what is left of the quarantine is copied back.
CopiesBack ==
    /\ Undoing("unquarantine")
    /\ releases' = releases \cup quarantined /\ UNCHANGED quarantined
    /\ Advance
    /\ UNCHANGED <<current, files, hook, kept, service, mine, writer, links, gens>>

\* Quarantined releases get their names back; one deleted already is written anew from its
\* snapshot.
RestoreReleases ==
    /\ Undoing("unquarantine")
    /\ releases' = before.releases /\ quarantined' = quarantined \ before.releases
    /\ Advance
    /\ UNCHANGED <<current, files, hook, kept, service, mine, writer, links, gens>>
-----------------------------------------------------------------------------
(* Failures, the end of a command, and the others *)

\* A step fails.  Its file may be written and the service stopped or started by then: the
\* cleanup looks at both.  A first run cannot tell whether its file was written; it leaves
\* that file alone and reports it.
Fault ==
    /\ cmd # "none" /\ ~cleaning /\ todo # <<>> /\ Breaks
    /\ writer.at \in {"idle", "exchange", "plain", "note"}
    /\ ~(Doing("done") /\ cmd \in {"update", "rollback", "repair"})
    /\ mine' = IF cmd = "first" /\ ~Doing("service")
               THEN [mine EXCEPT !.spared = IF Doing("done") THEN "action" ELSE Head(todo)]
               ELSE IF Doing("hooks") THEN NotingFailure(hook)
               ELSE [mine EXCEPT !.attempted = @ \/ Doing("activate")]
    /\ files' \in {files, Written(Head(todo))}
    /\ service' \in {service} \cup (IF ~Doing("service") THEN {}
                                    ELSE IF Healthy(target) THEN {None, target} ELSE {None})
    /\ writer' = NoWriter
    /\ UNCHANGED <<current, releases, quarantined, hook, kept, links, gens, torn>>

\* A release is published but its identity not taken.
FaultPublished ==
    /\ Doing("publish") /\ target \notin releases /\ Breaks
    /\ releases' = releases \cup {target}
    /\ torn' = IF cmd = "install" THEN torn \cup {"release"} ELSE torn
    /\ UNCHANGED <<current, quarantined, files, hook, kept, service, mine, writer, links, gens>>

\* The link is switched.  A failure to remove the old one tells the command which link it
\* has made; one before that does not, and an update that stops no service then removes the
\* release under the link.  An install does not ask: it looks at the release named.
FaultSwitched ==
    /\ Doing("activate") /\ current = before.current /\ target \in releases /\ Breaks
    /\ Switch(target)
    /\ \E noted \in {TRUE, cmd = "install"} :
           /\ mine' = [mine EXCEPT !.attempted = TRUE, !.link = IF noted THEN current' ELSE NoLink]
           /\ torn' = IF noted THEN torn
                      ELSE torn \cup {"link"} \cup (IF cmd = "update" THEN {"dangling"} ELSE {})
    /\ UNCHANGED <<releases, quarantined, files, hook, kept, service, writer, gens>>

\* The action file is written.  Start reads its generation back, a first run reports the
\* file, and an install knows only the generation it has noted.
FaultInAction ==
    /\ Doing("pending") \/ (Doing("done") /\ cmd \in {"install", "start", "first"})
    /\ Breaks /\ NewAction
    /\ mine' = CASE cmd = "start" -> [mine EXCEPT !.gen = gens + 1]
                 [] cmd = "first" -> [mine EXCEPT !.spared = "action"]
                 [] OTHER -> mine
    /\ torn' = IF cmd = "install" THEN torn \cup {"action"} ELSE torn
    /\ UNCHANGED <<current, releases, quarantined, hook, kept, service, writer, links>>

\* Uninstall has stopped the service, unlinked a file or removed the link, and has not
\* noted it.
FaultStopped ==
    /\ Doing("bootout") /\ service # None /\ Breaks
    /\ service' = None /\ torn' = torn \cup {"service"}
    /\ UNCHANGED <<current, releases, quarantined, files, hook, kept, mine, writer, links, gens>>

FaultUnlinked ==
    /\ Doing("unlink") /\ Breaks
    /\ \E i \in Present : Unlink(i) /\ mine' = [mine EXCEPT !.spared = FileOrder[i]]
    /\ UNCHANGED <<current, releases, quarantined, hook, kept, service, writer, links, gens, torn>>

FaultDropped ==
    /\ Doing("drop") /\ before.current # NoLink /\ current = before.current /\ Breaks
    /\ current' = NoLink /\ torn' = torn \cup {"link"}
    /\ UNCHANGED <<releases, quarantined, files, hook, kept, service, mine, writer, links, gens>>

\* The hook configuration is exchanged.  The failure tells the command what was committed,
\* unless it came while the source was made the backup.
FaultExchanged ==
    /\ writer.at = "exchanged" /\ writer.temp = writer.source /\ Breaks
    /\ hook = Merged \/ writer.source = NoHook
    /\ kept' = Keeping({writer.temp.edit}) /\ writer' = NoWriter
    /\ mine' \in CASE cmd = "first" -> {[mine EXCEPT !.spared = "hooks"]}
                   [] cmd = "install" -> {Noting(hook)}
                   [] cmd \notin Noters /\ hook = Merged ->
                          {mine, [mine EXCEPT !.hook = Merged, !.noted = TRUE]}
                   [] OTHER -> {mine}
    /\ UNCHANGED <<current, releases, quarantined, files, hook, service, links, gens, torn>>

\* The transition is over; only its action file could not be written, or not for certain.
FaultAtTheEnd ==
    /\ Doing("done") /\ cmd \in {"update", "rollback", "repair"} /\ incidents < MaxIncidents
    /\ incidents' = incidents + 1 /\ errors' = TRUE /\ todo' = <<>>
    /\ NewAction \/ UNCHANGED <<files, gens>>
    /\ UNCHANGED <<current, releases, quarantined, hook, kept, service, mine, writer, links,
                   cleaning, conflicted, torn>>
    /\ Steady

FaultInCleanup ==
    /\ cmd # "none" /\ cleaning /\ todo # <<>> /\ writer.at = "idle" /\ Breaks
    /\ UNCHANGED <<disk, mine, writer, links, gens, torn>>

\* The claimed configuration gets its name back, or keeps the private one.
FaultInClaim ==
    /\ writer.at = "claimed" /\ Breaks
    /\ IF hook = NoHook THEN hook' = writer.temp /\ UNCHANGED kept
       ELSE UNCHANGED hook /\ kept' = Keeping({writer.temp.edit})
    /\ writer' = NoWriter
    /\ UNCHANGED <<current, releases, quarantined, files, service, mine, links, gens, torn>>

Finish ==
    /\ cmd # "none" /\ todo = <<>>
    /\ cmd' = "none" /\ last' = cmd
    /\ outcome' = IF cleaning THEN "failed" ELSE IF errors THEN "late" ELSE "done"
    /\ scheduled' = IF outcome' = "done" /\ cmd = "first" /\ ~login THEN mine.gen ELSE scheduled
    /\ asked' = IF outcome' # "done" \/ cmd = "hooks" THEN asked ELSE cmd = "first" /\ ~login
    /\ IF outcome' = "failed" THEN UNCHANGED <<before, mine>>
                              ELSE before' = Snapshot /\ mine' = Fresh
    /\ quarantined' = {}
    /\ UNCHANGED <<current, releases, files, hook, kept, service, todo, cleaning, errors, target,
                   login, writer, counters, relinked, disturbed, torn, conflicted>>

\* The command dies: its lock is gone with it, its temporary files are not.
Crash ==
    /\ cmd # "none" /\ incidents < MaxIncidents
    /\ incidents' = incidents + 1 /\ cmd' = "none" /\ last' = cmd /\ outcome' = "crashed"
    /\ kept' = Keeping({writer.temp.edit}) /\ writer' = NoWriter
    /\ todo' = <<>> /\ cleaning' = FALSE /\ errors' = FALSE /\ target' = None /\ login' = TRUE
    /\ before' = Snapshot /\ mine' = Fresh /\ quarantined' = {}
    /\ UNCHANGED <<current, releases, files, hook, service, scheduled, links, gens,
                   edits, commands, relinked, disturbed, torn, conflicted, asked>>

\* A slip: the worker does not look whether its request is still the last one.
StopsAnyService ==
    /\ cmd = "none" /\ scheduled # 0
    /\ service' = None /\ files' = [files EXCEPT !.action = NoFiles.action]
    /\ scheduled' = 0 /\ disturbed' = TRUE
    /\ UNCHANGED <<current, releases, quarantined, hook, kept, command, counters, outcome,
                   last, relinked, torn, conflicted, asked>>

\* The stop of the service that a first run scheduled for after its answer.
ScheduledBootout ==
    /\ cmd = "none" /\ scheduled # 0
    /\ IF files.action = [gen |-> scheduled, login |-> FALSE]
       THEN service' = None /\ files' = [files EXCEPT !.action = NoFiles.action]
       ELSE UNCHANGED <<service, files>>
    /\ scheduled' = 0 /\ disturbed' = TRUE
    /\ UNCHANGED <<current, releases, quarantined, hook, kept, command, counters, outcome,
                   last, relinked, torn, conflicted, asked>>

\* An agent, or the user, replaces the hook configuration, or makes one.
Edit ==
    /\ incidents < MaxIncidents /\ incidents' = incidents + 1
    /\ edits' = edits + 1
    /\ hook' = [ours |-> hook.ours, edit |-> edits + 1]
    /\ disturbed' = TRUE
    /\ UNCHANGED <<current, releases, quarantined, files, kept, service, command, scheduled,
                   links, gens, commands, relinked, outcome, last, torn, conflicted, asked>>

\* Someone points "current" to an installed release.
Relink ==
    /\ incidents < MaxIncidents /\ incidents' = incidents + 1
    /\ current # NoLink
    /\ relinked' = TRUE
    /\ \E v \in releases : current' = [to |-> v, id |-> links + 1]
    /\ links' = links + 1 /\ disturbed' = TRUE
    /\ UNCHANGED <<releases, quarantined, files, hook, kept, service, command, scheduled,
                   gens, edits, commands, outcome, last, torn, conflicted, asked>>
-----------------------------------------------------------------------------
Commands ==
    \/ \E v \in Versions : Update(v) \/ InstallCommand(v)
    \/ Rollback \/ Repair \/ HooksRepair \/ StartCommand \/ Uninstall
    \/ \E choice \in BOOLEAN : FirstRun(choice)

Transition ==
    \/ Publish \/ Activate \/ WriteFile \/ WriteAction \/ StartService \/ Smoke \/ Bootout
    \/ UnlinkFile \/ DropCurrent \/ Quarantine \/ DeleteQuarantined

HookWriter ==
    \/ ReadHook \/ RefuseHook \/ ExchangeHook \/ CommitHook \/ YieldHook \/ RecoverHook
    \/ ReplacePlainly \/ NoteHook

Restoring ==
    \/ RestoreFile \/ WithdrawAction \/ ClaimHook \/ PutHookBack \/ CompareHook
    \/ ReplaceWithOld \/ ForgetBackup \/ RestoreVersion \/ RestartService
    \/ RemoveRelease \/ RestoreReleases

Faults ==
    \/ Fault \/ FaultPublished \/ FaultSwitched \/ FaultInAction \/ FaultStopped
    \/ FaultUnlinked \/ FaultDropped \/ FaultExchanged \/ FaultAtTheEnd
    \/ FaultInCleanup \/ FaultInClaim

Next ==
    \/ Commands \/ Transition \/ HookWriter \/ Restoring
    \/ Faults \/ Finish \/ Crash
    \/ ScheduledBootout \/ Edit \/ Relink

Spec == Init /\ [][Next]_vars
-----------------------------------------------------------------------------
(* Properties *)

\* The type of the state: the commands, the links and the counters within their bounds.
TypeOK ==
    /\ current \in [to : Versions \cup {None}, id : 0 .. links]
    /\ releases \subseteq Versions /\ quarantined \subseteq Versions
    /\ releases \cap quarantined = {}
    /\ files.config.version \in Versions \cup {None} /\ files.agent \in {"absent", "login", "session"}
    /\ files.state \in [current : Versions \cup {None}, previous : Versions \cup {None}]
    /\ files.action.gen \in 0 .. gens
    /\ hook \in [ours : BOOLEAN, edit : -1 .. edits] /\ kept \subseteq -1 .. edits
    /\ service \in Versions \cup {None}
    /\ cmd \in {"none", "update", "rollback", "repair", "install", "hooks", "start", "first",
                "uninstall"}

\* At every instant, also after a crash, "current" and the state lead to installed
\* releases; only a cleanup that reported its failure, someone who pointed "current" to the
\* release that a cleanup is removing, or an update that failed between the switch of the
\* link and the note of it may leave them hanging (vibe_memory_install.update and its
\* cleanup, _activate_managed_version, _remove_new_managed_release).
CurrentInstalled ==
    conflicted \/ relinked \/ "dangling" \in torn \/
        {current.to, files.state.current, files.state.previous} \subseteq releases \cup {None}

\* Nothing of a transition that failed remains when nobody interfered and its cleanup
\* reported no failure: the link, the releases, the managed files and the hooks are as
\* they were, each unless the step that failed had changed it without noting it (torn).
\* A service that ran the current version runs it again, except after start and first run
\* and after an update that failed before it switched: they leave it stopped (the cleanups
\* of vibe_memory_install.py and vibe_memory_cli.py).
FailureRestores ==
    cmd = "none" /\ outcome = "failed" /\ ~errors /\ ~disturbed =>
        /\ current.to = before.current.to \/ "link" \in torn
        /\ releases = before.releases \/ "release" \in torn
        /\ \A f \in DOMAIN files \ torn : files[f] = before.files[f]
        /\ hook = before.hook
        /\ (/\ before.service = before.current.to /\ last \notin {"start", "first"}
            /\ last = "update" => mine.attempted
            /\ "service" \notin torn) => service = before.service

\* After a transition that succeeded undisturbed the link, the configuration, the state,
\* the hooks and the service agree on one version, and after an uninstall nothing is left
\* (update, rollback, repair, install, uninstall).
SuccessAgrees ==
    cmd = "none" /\ outcome = "done" /\ ~disturbed =>
        /\ last \in {"update", "rollback", "repair", "install"} =>
               /\ {current.to, files.config.version, files.state.current, service} = {target}
               /\ hook.ours /\ files.launcher /\ files.agent # "absent"
        /\ last = "uninstall" => /\ current = NoLink /\ releases = {} /\ files = NoFiles
                                 /\ ~hook.ours /\ service = None

\* The edits that some file next to the hook configuration still holds.
OnDisk == {hook.edit, writer.temp.edit} \cup kept

\* No step of update, rollback, repair or uninstall removes the only copy of another
\* program's edit: it is in place, or in a backup or conflict file (write_with_backup,
\* _restore_regular_file).  Install, hooks repair and first run compare and then replace,
\* or note the file late, and are not among them.
EditsKept ==
    [][edits' = edits /\ cmd \in {"update", "rollback", "repair", "uninstall"} =>
           OnDisk \ {-1, 0} \subseteq OnDisk']_vars

\* The stop that a first run scheduled never hits a service that a later command has
\* settled (complete_scheduled_bootout).
BootoutAsked ==
    [][cmd = "none" /\ cmd' = "none" /\ service' # service => asked]_vars
=============================================================================
