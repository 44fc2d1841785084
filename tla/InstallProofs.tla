---------------------------- MODULE InstallProofs ----------------------------
(***************************************************************************)
(* Proofs about Install, for every set of versions and all bounds: the     *)
(* types, that "current" leads to an installed release at every instant,   *)
(* what a transition that succeeded or failed leaves, that no edit of the  *)
(* hook configuration is lost, and that the scheduled stop was asked for.  *)
(*                                                                         *)
(* A command is a list of steps of which some are left.  The invariant     *)
(* says of each part of the disk what holds once a step is past, of the    *)
(* command itself or of its cleanup; a step changes one part, and the rest *)
(* of the invariant only has to follow the list.                           *)
(***************************************************************************)
EXTENDS Install, TLAPS

\* The steps a command begins with.
Steps(c) ==
    CASE c = "update" -> <<"publish", "config", "launcher", "activate", "agent", "hooks",
                           "state", "service", "smoke", "done">>
      [] c = "rollback" -> <<"activate", "config", "launcher", "agent", "hooks", "state",
                             "service", "smoke", "done">>
      [] c = "repair" -> <<"config", "launcher", "agent", "hooks", "state", "service",
                           "smoke", "done">>
      [] c = "install" -> <<"publish", "activate", "config", "launcher", "agent", "hooks",
                            "state", "pending", "service", "smoke", "done">>
      [] c = "hooks" -> <<"hooks", "smoke">>
      [] c = "start" -> <<"agent", "pending", "service", "done">>
      [] c = "first" -> <<"config", "hooks", "agent", "done", "service">>
      [] OTHER -> <<"bootout", "unhook", "unlink", "drop", "quarantine", "delete">>

Names == {"update", "rollback", "repair", "install", "hooks", "start", "first", "uninstall"}

AllSteps == {"publish", "config", "launcher", "activate", "agent", "hooks", "state", "pending",
             "service", "smoke", "done", "bootout", "unhook", "unlink", "drop", "quarantine",
             "delete", "files", "rehook", "clirehook", "version", "release", "unpend", "forget",
             "unquarantine"}

Track == IF cleaning THEN Cleanup(cmd) ELSE Steps(cmd)

\* s is the end of the track t.
Ends(s, t) ==
    /\ s \in Seq(AllSteps) /\ Len(s) <= Len(t)
    /\ \A i \in 1 .. Len(s) : s[i] = t[i + Len(t) - Len(s)]

OnTrack == IF cmd = "none" THEN todo = <<>> ELSE Ends(todo, Track)

Items(s) == {s[i] : i \in 1 .. Len(s)}
Left == Items(todo)
Past(step) == step \notin Left

Links == [to : Versions \cup {None}, id : 0 .. links]
Hooks == [ours : BOOLEAN, edit : -1 .. edits]
Files == [config : [version : Versions \cup {None}, login : BOOLEAN], launcher : BOOLEAN,
          agent : {"absent", "login", "session"},
          state : [current : Versions \cup {None}, previous : Versions \cup {None}],
          action : [gen : 0 .. gens, login : BOOLEAN]]
Snapshots == [current : Links, releases : SUBSET Versions, files : Files, hook : Hooks,
              kept : SUBSET (-1 .. edits), service : Versions \cup {None}]
Memories == [link : Links, hook : Hooks, noted : BOOLEAN, backup : -1 .. edits, gen : 0 .. gens,
             release : BOOLEAN, attempted : BOOLEAN, pending : BOOLEAN, stopped : BOOLEAN,
             dropped : BOOLEAN,
             spared : {"none", "config", "launcher", "hooks", "agent", "state", "action"}]
Writers == [at : {"idle", "exchange", "exchanged", "plain", "note", "claimed", "replace"},
            source : Hooks, temp : Hooks, seen : SUBSET Hooks]

Typed ==
    /\ current \in Links /\ releases \subseteq Versions /\ quarantined \subseteq Versions
    /\ files \in Files /\ hook \in Hooks /\ kept \subseteq -1 .. edits
    /\ service \in Versions \cup {None}
    /\ cmd \in Names \cup {"none"} /\ {cleaning, errors, login} \subseteq BOOLEAN
    /\ target \in Versions \cup {None}
    /\ before \in Snapshots /\ mine \in Memories /\ writer \in Writers
    /\ links \in Nat /\ gens \in Nat /\ edits \in Nat /\ scheduled \in 0 .. gens
    /\ {disturbed, relinked, conflicted, asked} \subseteq BOOLEAN

Absent(h) == h.edit = -1 => h = NoHook
Linked(c) == c.to = None => c = NoLink

Shared ==
    /\ releases \cap quarantined = {}
    /\ cmd # "uninstall" => quarantined = {}
    /\ Linked(current) /\ Linked(before.current)
    /\ Absent(hook) /\ Absent(before.hook) /\ Absent(writer.source) /\ Absent(writer.temp)
    /\ \A h \in writer.seen : Absent(h)
    /\ cmd \in {"update", "rollback", "repair", "install"} => target \in Versions
    /\ cmd = "rollback" => target = before.files.state.previous
    /\ cmd = "repair" => target = before.current.to
    /\ cmd # "none" /\ errors => IF cleaning THEN conflicted ELSE todo = <<>>

\* Where the writer of the hook configuration is.
Writing ==
    /\ writer.at = "idle" => writer = NoWriter
    /\ writer.at \in {"exchange", "exchanged", "plain", "note"} =>
           cmd # "none" /\ ~cleaning /\ todo # <<>> /\ Head(todo) \in {"hooks", "unhook"}
    /\ writer.at = "plain" => cmd = "first" /\ writer.source.ours
    /\ writer.at = "note" => cmd \in Noters
    /\ writer.at = "claimed" => cmd # "none" /\ cleaning /\ todo # <<>> /\ Head(todo) = "rehook"
    /\ writer.at = "replace" =>
           cmd # "none" /\ cleaning /\ todo # <<>> /\ Head(todo) = "clirehook" /\ mine.noted
    /\ writer.at \notin {"exchanged", "claimed"} => writer.temp = NoHook

Base == Typed /\ OnTrack /\ Shared /\ Writing

Managing == {"update", "rollback", "repair", "install"}

\* The commands that withdraw their action file: it is as it was, or the one written.
Withdrawing == {"install", "start"}
Owned == \/ files.action = before.files.action
         \/ mine.gen # 0 /\ files.action.gen = mine.gen

\* The files are put back, the action file by another step perhaps.
PutBack == /\ files = [before.files EXCEPT !.action = files.action]
           /\ cmd \notin Withdrawing => files.action = before.files.action

\* The managed files: what is written, what uninstall removes and what is put back.
FilesInv ==
    cmd # "none" =>
        /\ ~cleaning /\ cmd \in Managing =>
               /\ Past("config") => files.config.version = target
               /\ Past("launcher") => files.launcher
               /\ Past("agent") => files.agent # "absent"
               /\ Past("state") => files.state.current = target
        /\ cmd = "uninstall" => files.state \in {before.files.state, NoFiles.state}
        /\ cmd = "uninstall" /\ ~cleaning /\ Past("unlink") => files = NoFiles
        /\ cmd = "hooks" => files = before.files
        /\ (cmd \in {"first", "uninstall"} /\ cleaning) \/ mine.spared = "none"
        /\ cmd \in Withdrawing /\ "action" \notin torn => Owned
        /\ cleaning /\ ~errors =>
               /\ cmd = "first" => mine.spared = "none"
               /\ Past("files") => mine.spared = "none" /\ PutBack
               /\ cmd \in Withdrawing /\ "action" \notin torn /\ Past("unpend") =>
                      files.action = before.files.action

\* The link: what the command made, and what is put back.
Meddled == disturbed /\ relinked
Unknown == Meddled \/ "link" \in torn
Switching == {"update", "rollback", "install"}
Publishing == {"update", "install"}

CurrentInv ==
    cmd # "none" =>
        /\ cmd \notin Switching => mine.link = NoLink
        /\ ~cleaning /\ cmd \in Switching => (Past("activate") <=> mine.link # NoLink)
        /\ cmd # "uninstall" => ~mine.dropped
        /\ ~cleaning => "link" \notin torn
        /\ cmd \in Publishing /\ "link" \in torn => "dangling" \in torn
        /\ cmd = "rollback" /\ "link" \in torn /\ ~Meddled =>
               /\ mine.link = NoLink /\ current \notin {NoLink, before.current}
               /\ cleaning /\ ~errors => ~Past("version")
        /\ cmd = "uninstall" /\ ~Meddled => current.to \in {before.current.to, None}
        /\ ~Unknown =>
               /\ mine.link = NoLink /\ ~mine.dropped => current = before.current
               /\ ~cleaning /\ cmd \in Switching /\ Past("activate") => current.to = target
               /\ ~cleaning /\ cmd = "uninstall" =>
                      IF Past("drop") THEN current = NoLink ELSE ~mine.dropped
               /\ cleaning /\ ~errors /\ Past("version") => current.to = before.current.to

\* The releases.
ReleasesInv ==
    cmd # "none" =>
        /\ cmd \notin Publishing => ~mine.release
        /\ cmd # "uninstall" =>
               /\ \/ releases = before.releases
                  \/ /\ cmd \in Publishing /\ (mine.release \/ cleaning)
                     /\ releases = before.releases \cup {target}
               /\ cmd = "install" /\ ~mine.release =>
                      releases = before.releases \/ "release" \in torn
               /\ mine.release => target \notin before.releases
               /\ cmd \in Publishing /\ ~cleaning =>
                      IF Past("publish") THEN target \in releases ELSE ~mine.release
               /\ cleaning /\ ~errors /\ Past("release") =>
                      releases = before.releases \/ "release" \in torn
        /\ cmd = "uninstall" =>
               /\ ~cleaning /\ ~Past("drop") => releases = before.releases
               /\ ~cleaning /\ Past("quarantine") => releases = {}
               /\ cleaning /\ ~errors /\ Past("unquarantine") => releases = before.releases

\* CurrentInstalled, with the same of what the command found.
Refs(c, f) == {c.to, f.state.current, f.state.previous}

InstalledInv ==
    conflicted \/ relinked \/ "dangling" \in torn \/
        /\ Refs(current, files) \subseteq releases \cup {None}
        /\ cmd # "none" =>
               Refs(before.current, before.files) \subseteq before.releases \cup {None}
        /\ cmd = "uninstall" => \/ releases = before.releases
                                \/ current = NoLink /\ files.state = NoFiles.state

Careful == {"update", "rollback", "repair", "uninstall"}

\* The hook configuration, as long as nobody else writes it.
Hooked ==
    /\ Past("hooks") /\ cmd \in Managing => hook.ours
    /\ Past("unhook") /\ cmd = "uninstall" => ~hook.ours
    /\ writer.at \in {"exchange", "plain"} => hook = writer.source
    /\ writer.at = "exchanged" => hook = Merged /\ writer.temp = writer.source
    /\ writer.at = "note" => hook # NoHook /\ (cmd = "install" => hook.ours)

\* What the configuration is when it is not being written; a failed step may have left a
\* change of it that is not noted.
Untold == cleaning /\ (errors \/ cmd \in Careful \cup {"hooks"})
AsNoted == IF mine.noted THEN hook = mine.hook /\ (hook = NoHook => before.hook = NoHook)
                         ELSE hook = before.hook \/ Untold

HooksInv ==
    cmd # "none" =>
        /\ cmd = "start" => ~mine.noted
        /\ ~cleaning /\ ~(Past("hooks") /\ Past("unhook")) => ~mine.noted
        /\ ~disturbed =>
               /\ ~cleaning => Hooked
               /\ ~cleaning /\ writer.at \in {"idle", "exchange", "plain"} => AsNoted
               /\ cleaning /\ (~Past("rehook") \/ ~Past("clirehook") \/ cmd = "start")
                      /\ writer.at \in {"idle", "replace"} => AsNoted
               /\ writer.at = "claimed" => hook = NoHook
               /\ cleaning /\ ~errors /\ Past("rehook") /\ Past("clirehook") => hook = before.hook

\* The service.
Starting == /\ before.service = before.current.to /\ cmd \notin {"start", "first"}
            /\ cmd = "update" => mine.attempted

\* The service as the command found it, before its cleanup has stopped it.
Found ==
    /\ cmd = "hooks" => service = before.service
    /\ cmd = "install" /\ ~mine.pending /\ (~cleaning \/ ~Past("service")) =>
           service = before.service
    /\ cmd = "update" /\ mine.link = NoLink /\ (~cleaning \/ ~Past("bootout")) =>
           service = before.service
    /\ cmd = "update" /\ mine.link = NoLink /\ cleaning /\ Past("bootout") /\ ~errors =>
           mine.stopped = (before.service # None)
    /\ cmd = "uninstall" /\ ~cleaning /\ ~Past("bootout") => ~mine.stopped
    /\ cmd = "uninstall" /\ (~cleaning \/ ~Past("service")) /\ "service" \notin torn =>
           IF mine.stopped THEN service = None /\ before.service # None
                           ELSE service = before.service

Stopped ==
    cleaning /\ ~errors /\ Past("bootout") /\ ~Past("service") =>
        /\ cmd \in {"update", "rollback", "repair"} => service = None
        /\ cmd = "install" /\ mine.pending => service = None

ServiceInv ==
    cmd # "none" =>
        /\ ~cleaning /\ cmd \in Managing /\ Past("service") => service = target
        /\ ~cleaning /\ cmd = "uninstall" /\ Past("bootout") => service = None
        /\ ~cleaning /\ cmd = "install" => (Past("pending") <=> mine.pending)
        /\ Found /\ Stopped
        /\ Starting /\ ~Meddled /\ cleaning /\ ~errors /\ Past("service")
               /\ "service" \notin torn =>
               service = before.service

\* The action file and the scheduled stop.
Wanting(f) == scheduled # 0 /\ f.action = [gen |-> scheduled, login |-> FALSE]

ActionInv ==
    /\ Wanting(files) => asked
    /\ cmd # "none" /\ Wanting(before.files) => asked
    /\ ~cleaning /\ ~errors /\ Past("done") /\ cmd \notin {"none", "hooks", "uninstall"} =>
           files.action.gen > scheduled

\* The edits by other programs.
EditInv ==
    cmd \in Careful =>
        /\ mine.noted => mine.hook.edit \in kept \cup {-1, 0}
        /\ writer.at = "claimed" =>
               writer.temp = before.hook \/ writer.temp.edit \in kept \cup {-1, 0}
-----------------------------------------------------------------------------
(* The tracks *)

Injective(s) == \A i, j \in 1 .. Len(s) : s[i] = s[j] => i = j

\* The steps of a command, and those of its cleanup, are all different.
LEMMA TracksTyped ==
  ASSUME NEW c \in Names
  PROVE  /\ Steps(c) \in Seq(AllSteps) /\ Cleanup(c) \in Seq(AllSteps)
         /\ Injective(Steps(c)) /\ Injective(Cleanup(c))
<1>. USE DEF AllSteps
<1>1. CASE c = "update"
  <2>1. /\ Steps(c) = <<"publish", "config", "launcher", "activate", "agent", "hooks", "state",
                              "service", "smoke", "done">>
        /\ Cleanup(c) = <<"bootout", "files", "rehook", "version", "service", "release">>
    BY <1>1 DEF Steps, Cleanup
  <2>2. Steps(c) \in Seq(AllSteps) /\ Injective(Steps(c))
    BY <2>1 DEF Injective
  <2>3. Cleanup(c) \in Seq(AllSteps) /\ Injective(Cleanup(c))
    BY <2>1 DEF Injective
  <2>. QED BY <2>2, <2>3
<1>2. CASE c = "rollback"
  <2>1. /\ Steps(c) = <<"activate", "config", "launcher", "agent", "hooks", "state", "service",
                              "smoke", "done">>
        /\ Cleanup(c) = <<"bootout", "files", "rehook", "version", "service">>
    BY <1>2 DEF Steps, Cleanup
  <2>2. Steps(c) \in Seq(AllSteps) /\ Injective(Steps(c))
    BY <2>1 DEF Injective
  <2>3. Cleanup(c) \in Seq(AllSteps) /\ Injective(Cleanup(c))
    BY <2>1 DEF Injective
  <2>. QED BY <2>2, <2>3
<1>3. CASE c = "repair"
  <2>1. /\ Steps(c) = <<"config", "launcher", "agent", "hooks", "state", "service", "smoke", "done">>
        /\ Cleanup(c) = <<"bootout", "files", "rehook", "service">>
    BY <1>3 DEF Steps, Cleanup
  <2>2. Steps(c) \in Seq(AllSteps) /\ Injective(Steps(c))
    BY <2>1 DEF Injective
  <2>3. Cleanup(c) \in Seq(AllSteps) /\ Injective(Cleanup(c))
    BY <2>1 DEF Injective
  <2>. QED BY <2>2, <2>3
<1>4. CASE c = "install"
  <2>1. /\ Steps(c) = <<"publish", "activate", "config", "launcher", "agent", "hooks", "state",
                              "pending", "service", "smoke", "done">>
        /\ Cleanup(c) = <<"unpend", "bootout", "clirehook", "files", "version", "service", "release",
                         "forget">>
    BY <1>4 DEF Steps, Cleanup
  <2>2. Steps(c) \in Seq(AllSteps) /\ Injective(Steps(c))
    BY <2>1 DEF Injective
  <2>3. Cleanup(c) \in Seq(AllSteps) /\ Injective(Cleanup(c))
    BY <2>1 DEF Injective
  <2>. QED BY <2>2, <2>3
<1>5. CASE c = "hooks"
  <2>1. /\ Steps(c) = <<"hooks", "smoke">>
        /\ Cleanup(c) = <<"clirehook">>
    BY <1>5 DEF Steps, Cleanup
  <2>2. Steps(c) \in Seq(AllSteps) /\ Injective(Steps(c))
    BY <2>1 DEF Injective
  <2>3. Cleanup(c) \in Seq(AllSteps) /\ Injective(Cleanup(c))
    BY <2>1 DEF Injective
  <2>. QED BY <2>2, <2>3
<1>6. CASE c = "start"
  <2>1. /\ Steps(c) = <<"agent", "pending", "service", "done">>
        /\ Cleanup(c) = <<"unpend", "bootout", "files">>
    BY <1>6 DEF Steps, Cleanup
  <2>2. Steps(c) \in Seq(AllSteps) /\ Injective(Steps(c))
    BY <2>1 DEF Injective
  <2>3. Cleanup(c) \in Seq(AllSteps) /\ Injective(Cleanup(c))
    BY <2>1 DEF Injective
  <2>. QED BY <2>2, <2>3
<1>7. CASE c = "first"
  <2>1. /\ Steps(c) = <<"config", "hooks", "agent", "done", "service">>
        /\ Cleanup(c) = <<"bootout", "files", "rehook", "service">>
    BY <1>7 DEF Steps, Cleanup
  <2>2. Steps(c) \in Seq(AllSteps) /\ Injective(Steps(c))
    BY <2>1 DEF Injective
  <2>3. Cleanup(c) \in Seq(AllSteps) /\ Injective(Cleanup(c))
    BY <2>1 DEF Injective
  <2>. QED BY <2>2, <2>3
<1>8. CASE c = "uninstall"
  <2>1. /\ Steps(c) = <<"bootout", "unhook", "unlink", "drop", "quarantine", "delete">>
        /\ Cleanup(c) = <<"unquarantine", "files", "rehook", "version", "service">>
    BY <1>8 DEF Steps, Cleanup
  <2>2. Steps(c) \in Seq(AllSteps) /\ Injective(Steps(c))
    BY <2>1 DEF Injective
  <2>3. Cleanup(c) \in Seq(AllSteps) /\ Injective(Cleanup(c))
    BY <2>1 DEF Injective
  <2>. QED BY <2>2, <2>3
<1>. QED BY <1>1, <1>2, <1>3, <1>4, <1>5, <1>6, <1>7, <1>8 DEF Names

\* The steps of each command.
LEMMA StepItems ==
  ASSUME NEW x
  PROVE  /\ x \in Items(Steps("update")) <=>
              x \in {"publish", "config", "launcher", "activate", "agent", "hooks", "state",
                     "service", "smoke", "done"}
         /\ x \in Items(Steps("rollback")) <=>
              x \in {"activate", "config", "launcher", "agent", "hooks", "state", "service",
                     "smoke", "done"}
         /\ x \in Items(Steps("repair")) <=>
              x \in {"config", "launcher", "agent", "hooks", "state", "service", "smoke", "done"}
         /\ x \in Items(Steps("install")) <=>
              x \in {"publish", "activate", "config", "launcher", "agent", "hooks", "state",
                     "pending", "service", "smoke", "done"}
         /\ x \in Items(Steps("hooks")) <=>
              x \in {"hooks", "smoke"}
         /\ x \in Items(Steps("start")) <=>
              x \in {"agent", "pending", "service", "done"}
         /\ x \in Items(Steps("first")) <=>
              x \in {"config", "hooks", "agent", "done", "service"}
         /\ x \in Items(Steps("uninstall")) <=>
              x \in {"bootout", "unhook", "unlink", "drop", "quarantine", "delete"}
<1>1. x \in Items(Steps("update")) <=>
        x \in {"publish", "config", "launcher", "activate", "agent", "hooks", "state",
               "service", "smoke", "done"}
  <2>1. Steps("update") = <<"publish", "config", "launcher", "activate", "agent", "hooks", "state",
                              "service", "smoke", "done">>
    BY DEF Steps
  <2>2. x \in Items(Steps("update")) <=> \E i \in 1 .. 10 : Steps("update")[i] = x
    <3>1. Len(Steps("update")) = 10
      BY <2>1
    <3>. QED BY <3>1 DEF Items
  <2>. QED BY <2>1, <2>2
<1>2. x \in Items(Steps("rollback")) <=>
        x \in {"activate", "config", "launcher", "agent", "hooks", "state", "service",
               "smoke", "done"}
  <2>1. Steps("rollback") = <<"activate", "config", "launcher", "agent", "hooks", "state", "service",
                              "smoke", "done">>
    BY DEF Steps
  <2>2. x \in Items(Steps("rollback")) <=> \E i \in 1 .. 9 : Steps("rollback")[i] = x
    <3>1. Len(Steps("rollback")) = 9
      BY <2>1
    <3>. QED BY <3>1 DEF Items
  <2>. QED BY <2>1, <2>2
<1>3. x \in Items(Steps("repair")) <=>
        x \in {"config", "launcher", "agent", "hooks", "state", "service", "smoke", "done"}
  <2>1. Steps("repair") = <<"config", "launcher", "agent", "hooks", "state", "service", "smoke", "done">>
    BY DEF Steps
  <2>2. x \in Items(Steps("repair")) <=> \E i \in 1 .. 8 : Steps("repair")[i] = x
    <3>1. Len(Steps("repair")) = 8
      BY <2>1
    <3>. QED BY <3>1 DEF Items
  <2>. QED BY <2>1, <2>2
<1>4. x \in Items(Steps("install")) <=>
        x \in {"publish", "activate", "config", "launcher", "agent", "hooks", "state",
               "pending", "service", "smoke", "done"}
  <2>1. Steps("install") = <<"publish", "activate", "config", "launcher", "agent", "hooks", "state",
                              "pending", "service", "smoke", "done">>
    BY DEF Steps
  <2>2. x \in Items(Steps("install")) <=> \E i \in 1 .. 11 : Steps("install")[i] = x
    <3>1. Len(Steps("install")) = 11
      BY <2>1
    <3>. QED BY <3>1 DEF Items
  <2>. QED BY <2>1, <2>2
<1>5. x \in Items(Steps("hooks")) <=>
        x \in {"hooks", "smoke"}
  <2>1. Steps("hooks") = <<"hooks", "smoke">>
    BY DEF Steps
  <2>2. x \in Items(Steps("hooks")) <=> \E i \in 1 .. 2 : Steps("hooks")[i] = x
    <3>1. Len(Steps("hooks")) = 2
      BY <2>1
    <3>. QED BY <3>1 DEF Items
  <2>. QED BY <2>1, <2>2
<1>6. x \in Items(Steps("start")) <=>
        x \in {"agent", "pending", "service", "done"}
  <2>1. Steps("start") = <<"agent", "pending", "service", "done">>
    BY DEF Steps
  <2>2. x \in Items(Steps("start")) <=> \E i \in 1 .. 4 : Steps("start")[i] = x
    <3>1. Len(Steps("start")) = 4
      BY <2>1
    <3>. QED BY <3>1 DEF Items
  <2>. QED BY <2>1, <2>2
<1>7. x \in Items(Steps("first")) <=>
        x \in {"config", "hooks", "agent", "done", "service"}
  <2>1. Steps("first") = <<"config", "hooks", "agent", "done", "service">>
    BY DEF Steps
  <2>2. x \in Items(Steps("first")) <=> \E i \in 1 .. 5 : Steps("first")[i] = x
    <3>1. Len(Steps("first")) = 5
      BY <2>1
    <3>. QED BY <3>1 DEF Items
  <2>. QED BY <2>1, <2>2
<1>8. x \in Items(Steps("uninstall")) <=>
        x \in {"bootout", "unhook", "unlink", "drop", "quarantine", "delete"}
  <2>1. Steps("uninstall") = <<"bootout", "unhook", "unlink", "drop", "quarantine", "delete">>
    BY DEF Steps
  <2>2. x \in Items(Steps("uninstall")) <=> \E i \in 1 .. 6 : Steps("uninstall")[i] = x
    <3>1. Len(Steps("uninstall")) = 6
      BY <2>1
    <3>. QED BY <3>1 DEF Items
  <2>. QED BY <2>1, <2>2
<1>. QED BY <1>1, <1>2, <1>3, <1>4, <1>5, <1>6, <1>7, <1>8

\* The steps of each cleanup.
LEMMA CleanupItems ==
  ASSUME NEW x
  PROVE  /\ x \in Items(Cleanup("update")) <=>
              x \in {"bootout", "files", "rehook", "version", "service", "release"}
         /\ x \in Items(Cleanup("rollback")) <=>
              x \in {"bootout", "files", "rehook", "version", "service"}
         /\ x \in Items(Cleanup("repair")) <=>
              x \in {"bootout", "files", "rehook", "service"}
         /\ x \in Items(Cleanup("install")) <=>
              x \in {"unpend", "bootout", "clirehook", "files", "version", "service", "release",
                     "forget"}
         /\ x \in Items(Cleanup("hooks")) <=>
              x \in {"clirehook"}
         /\ x \in Items(Cleanup("start")) <=>
              x \in {"unpend", "bootout", "files"}
         /\ x \in Items(Cleanup("first")) <=>
              x \in {"bootout", "files", "rehook", "service"}
         /\ x \in Items(Cleanup("uninstall")) <=>
              x \in {"unquarantine", "files", "rehook", "version", "service"}
<1>1. x \in Items(Cleanup("update")) <=>
        x \in {"bootout", "files", "rehook", "version", "service", "release"}
  <2>1. Cleanup("update") = <<"bootout", "files", "rehook", "version", "service", "release">>
    BY DEF Cleanup
  <2>2. x \in Items(Cleanup("update")) <=> \E i \in 1 .. 6 : Cleanup("update")[i] = x
    <3>1. Len(Cleanup("update")) = 6
      BY <2>1
    <3>. QED BY <3>1 DEF Items
  <2>. QED BY <2>1, <2>2
<1>2. x \in Items(Cleanup("rollback")) <=>
        x \in {"bootout", "files", "rehook", "version", "service"}
  <2>1. Cleanup("rollback") = <<"bootout", "files", "rehook", "version", "service">>
    BY DEF Cleanup
  <2>2. x \in Items(Cleanup("rollback")) <=> \E i \in 1 .. 5 : Cleanup("rollback")[i] = x
    <3>1. Len(Cleanup("rollback")) = 5
      BY <2>1
    <3>. QED BY <3>1 DEF Items
  <2>. QED BY <2>1, <2>2
<1>3. x \in Items(Cleanup("repair")) <=>
        x \in {"bootout", "files", "rehook", "service"}
  <2>1. Cleanup("repair") = <<"bootout", "files", "rehook", "service">>
    BY DEF Cleanup
  <2>2. x \in Items(Cleanup("repair")) <=> \E i \in 1 .. 4 : Cleanup("repair")[i] = x
    <3>1. Len(Cleanup("repair")) = 4
      BY <2>1
    <3>. QED BY <3>1 DEF Items
  <2>. QED BY <2>1, <2>2
<1>4. x \in Items(Cleanup("install")) <=>
        x \in {"unpend", "bootout", "clirehook", "files", "version", "service", "release",
               "forget"}
  <2>1. Cleanup("install") = <<"unpend", "bootout", "clirehook", "files", "version", "service", "release",
                              "forget">>
    BY DEF Cleanup
  <2>2. x \in Items(Cleanup("install")) <=> \E i \in 1 .. 8 : Cleanup("install")[i] = x
    <3>1. Len(Cleanup("install")) = 8
      BY <2>1
    <3>. QED BY <3>1 DEF Items
  <2>. QED BY <2>1, <2>2
<1>5. x \in Items(Cleanup("hooks")) <=>
        x \in {"clirehook"}
  <2>1. Cleanup("hooks") = <<"clirehook">>
    BY DEF Cleanup
  <2>2. x \in Items(Cleanup("hooks")) <=> \E i \in 1 .. 1 : Cleanup("hooks")[i] = x
    <3>1. Len(Cleanup("hooks")) = 1
      BY <2>1
    <3>. QED BY <3>1 DEF Items
  <2>. QED BY <2>1, <2>2
<1>6. x \in Items(Cleanup("start")) <=>
        x \in {"unpend", "bootout", "files"}
  <2>1. Cleanup("start") = <<"unpend", "bootout", "files">>
    BY DEF Cleanup
  <2>2. x \in Items(Cleanup("start")) <=> \E i \in 1 .. 3 : Cleanup("start")[i] = x
    <3>1. Len(Cleanup("start")) = 3
      BY <2>1
    <3>. QED BY <3>1 DEF Items
  <2>. QED BY <2>1, <2>2
<1>7. x \in Items(Cleanup("first")) <=>
        x \in {"bootout", "files", "rehook", "service"}
  <2>1. Cleanup("first") = <<"bootout", "files", "rehook", "service">>
    BY DEF Cleanup
  <2>2. x \in Items(Cleanup("first")) <=> \E i \in 1 .. 4 : Cleanup("first")[i] = x
    <3>1. Len(Cleanup("first")) = 4
      BY <2>1
    <3>. QED BY <3>1 DEF Items
  <2>. QED BY <2>1, <2>2
<1>8. x \in Items(Cleanup("uninstall")) <=>
        x \in {"unquarantine", "files", "rehook", "version", "service"}
  <2>1. Cleanup("uninstall") = <<"unquarantine", "files", "rehook", "version", "service">>
    BY DEF Cleanup
  <2>2. x \in Items(Cleanup("uninstall")) <=> \E i \in 1 .. 5 : Cleanup("uninstall")[i] = x
    <3>1. Len(Cleanup("uninstall")) = 5
      BY <2>1
    <3>. QED BY <3>1 DEF Items
  <2>. QED BY <2>1, <2>2
<1>. QED BY <1>1, <1>2, <1>3, <1>4, <1>5, <1>6, <1>7, <1>8

\* The track a command is on has no step twice.
LEMMA TrackTyped ==
  ASSUME cmd \in Names, cleaning \in BOOLEAN
  PROVE  Track \in Seq(AllSteps) /\ Injective(Track)
BY TracksTyped DEF Track

\* A command that goes on has its next step behind it, and no other.
LEMMA TailEnds ==
  ASSUME NEW t \in Seq(AllSteps), Injective(t), NEW s, Ends(s, t), s # <<>>
  PROVE  /\ Head(s) \in Items(s) /\ Head(s) \in AllSteps
         /\ Ends(Tail(s), t) /\ Items(Tail(s)) = Items(s) \ {Head(s)}
<1>1. /\ s \in Seq(AllSteps) /\ Len(s) \in Nat /\ Len(s) > 0 /\ Len(t) \in Nat /\ Len(s) <= Len(t)
      /\ Head(s) = s[1] /\ Tail(s) \in Seq(AllSteps) /\ Len(Tail(s)) = Len(s) - 1
      /\ \A i \in 1 .. Len(s) - 1 : Tail(s)[i] = s[i + 1]
  BY DEF Ends
<1>2. \A i, j \in 1 .. Len(s) : s[i] = s[j] => i = j
  <2>1. \A i \in 1 .. Len(s) : i + Len(t) - Len(s) \in 1 .. Len(t) /\ s[i] = t[i + Len(t) - Len(s)]
    BY <1>1 DEF Ends
  <2>2. ASSUME NEW i \in 1 .. Len(s), NEW j \in 1 .. Len(s), s[i] = s[j] PROVE i = j
    <3>1. i + Len(t) - Len(s) = j + Len(t) - Len(s)
      BY <2>1, <2>2 DEF Injective
    <3>. QED BY <1>1, <3>1
  <2>. QED BY <2>2
<1>3. Items(Tail(s)) = Items(s) \ {Head(s)}
  <2>1. ASSUME NEW x \in Items(Tail(s)) PROVE x \in Items(s) \ {Head(s)}
    <3>1. PICK i \in 1 .. Len(s) - 1 : x = s[i + 1]
      BY <1>1, <2>1 DEF Items
    <3>. QED BY <1>1, <1>2, <3>1 DEF Items
  <2>2. ASSUME NEW x \in Items(s) \ {Head(s)} PROVE x \in Items(Tail(s))
    <3>1. PICK i \in 1 .. Len(s) : x = s[i]
      BY <2>2 DEF Items
    <3>2. i # 1 /\ i - 1 \in 1 .. Len(s) - 1
      BY <1>1, <2>2, <3>1
    <3>3. Tail(s)[i - 1] = x
      BY <1>1, <3>1, <3>2
    <3>. QED BY <1>1, <3>2, <3>3 DEF Items
  <2>. QED BY <2>1, <2>2
<1>4. Ends(Tail(s), t)
  <2>1. \A i \in 1 .. Len(s) - 1 : s[i + 1] = t[i + 1 + Len(t) - Len(s)]
    BY <1>1 DEF Ends
  <2>. QED BY <1>1, <2>1 DEF Ends
<1>5. s[1] \in Items(s)
  BY <1>1 DEF Items
<1>. QED BY <1>1, <1>3, <1>4, <1>5

\* What comes earlier on the track is past; what comes next is next.
LEMMA Passed ==
  ASSUME NEW t \in Seq(AllSteps), Injective(t), NEW s, Ends(s, t), s # <<>>,
         NEW m \in 1 .. Len(t), Head(s) = t[m]
  PROVE  /\ \A k \in 1 .. m - 1 : t[k] \notin Items(s)
         /\ m < Len(t) => Tail(s) # <<>> /\ Head(Tail(s)) = t[m + 1]
<1>1. /\ s \in Seq(AllSteps) /\ Len(s) \in Nat /\ Len(s) > 0 /\ Len(t) \in Nat
      /\ Head(s) = s[1] /\ Len(s) <= Len(t)
  BY DEF Ends
<1>2. m = 1 + Len(t) - Len(s)
  <2>1. 1 + Len(t) - Len(s) \in 1 .. Len(t)
    BY <1>1
  <2>2. t[m] = t[1 + Len(t) - Len(s)]
    BY <1>1 DEF Ends
  <2>. QED BY <2>1, <2>2 DEF Injective
<1>3. ASSUME NEW k \in 1 .. m - 1, NEW i \in 1 .. Len(s), s[i] = t[k] PROVE FALSE
  <2>1. i + Len(t) - Len(s) \in 1 .. Len(t) /\ k \in 1 .. Len(t)
    BY <1>1
  <2>2. k = i + Len(t) - Len(s)
    BY <1>1, <1>3, <2>1 DEF Ends, Injective
  <2>. QED BY <1>1, <1>2, <2>2
<1>4. m < Len(t) => Tail(s) # <<>> /\ Head(Tail(s)) = t[m + 1]
  <2>. SUFFICES ASSUME m < Len(t) PROVE Tail(s) # <<>> /\ Head(Tail(s)) = t[m + 1]
    OBVIOUS
  <2>1. Len(s) > 1 /\ s[2] = t[2 + Len(t) - Len(s)]
    BY <1>1, <1>2 DEF Ends
  <2>2. Tail(s) \in Seq(AllSteps) /\ Len(Tail(s)) = Len(s) - 1 /\ Tail(s)[1] = s[2]
    BY <1>1, <2>1
  <2>3. \A u \in Seq(AllSteps) : Len(u) > 0 => u # <<>>
    OBVIOUS
  <2>4. Tail(s) # <<>> /\ Head(Tail(s)) = Tail(s)[1]
    <3>1. \A u \in Seq(AllSteps) : u # <<>> => Head(u) = u[1]
      OBVIOUS
    <3>2. Tail(s) \in Seq(AllSteps) /\ Len(Tail(s)) > 0
      BY <1>1, <2>1, <2>2
    <3>. QED BY <2>3, <2>2, <3>1, <3>2
  <2>. QED BY <1>1, <1>2, <2>1, <2>2, <2>3, <2>4
<1>. QED BY <1>3, <1>4 DEF Items

\* Only steps of the track are left.
LEMMA EndItems ==
  ASSUME NEW t \in Seq(AllSteps), NEW s, Ends(s, t)
  PROVE  Items(s) \subseteq Items(t)
<1>1. s \in Seq(AllSteps) /\ Len(s) <= Len(t)
  BY DEF Ends
<1>2. Len(s) \in Nat /\ Len(t) \in Nat
  BY <1>1
<1>3. \A i \in 1 .. Len(s) : s[i] = t[i + Len(t) - Len(s)]
  BY DEF Ends
<1>4. \A i \in 1 .. Len(s) : i + Len(t) - Len(s) \in 1 .. Len(t)
  BY <1>1, <1>2
<1>. QED BY <1>3, <1>4 DEF Items

\* A track is the end of itself.
LEMMA WholeEnds ==
  ASSUME NEW t \in Seq(AllSteps)
  PROVE  Ends(t, t)
BY DEF Ends

-----------------------------------------------------------------------------
(* The steps of the command under way *)

\* Every step is one of its command.
LEMMA Heads ==
  ASSUME OnTrack, cmd \in Names, cleaning \in BOOLEAN, NEW x \in Left
  PROVE  IF cleaning
         THEN /\ cmd = "update" =>
                     x \in {"bootout", "files", "rehook", "version", "service", "release"}
              /\ cmd = "rollback" =>
                     x \in {"bootout", "files", "rehook", "version", "service"}
              /\ cmd = "repair" =>
                     x \in {"bootout", "files", "rehook", "service"}
              /\ cmd = "install" =>
                     x \in {"unpend", "bootout", "clirehook", "files", "version", "service", "release",
                            "forget"}
              /\ cmd = "hooks" =>
                     x \in {"clirehook"}
              /\ cmd = "start" =>
                     x \in {"unpend", "bootout", "files"}
              /\ cmd = "first" =>
                     x \in {"bootout", "files", "rehook", "service"}
              /\ cmd = "uninstall" =>
                     x \in {"unquarantine", "files", "rehook", "version", "service"}
         ELSE /\ cmd = "update" =>
                     x \in {"publish", "config", "launcher", "activate", "agent", "hooks", "state",
                            "service", "smoke", "done"}
              /\ cmd = "rollback" =>
                     x \in {"activate", "config", "launcher", "agent", "hooks", "state", "service",
                            "smoke", "done"}
              /\ cmd = "repair" =>
                     x \in {"config", "launcher", "agent", "hooks", "state", "service", "smoke", "done"}
              /\ cmd = "install" =>
                     x \in {"publish", "activate", "config", "launcher", "agent", "hooks", "state",
                            "pending", "service", "smoke", "done"}
              /\ cmd = "hooks" =>
                     x \in {"hooks", "smoke"}
              /\ cmd = "start" =>
                     x \in {"agent", "pending", "service", "done"}
              /\ cmd = "first" =>
                     x \in {"config", "hooks", "agent", "done", "service"}
              /\ cmd = "uninstall" =>
                     x \in {"bootout", "unhook", "unlink", "drop", "quarantine", "delete"}
<1>1. x \in Items(Track)
  BY TrackTyped, EndItems DEF OnTrack, Left, Names
<1>2. CASE cleaning
  <2>1. CASE cmd = "update"
    BY <1>1, <1>2, <2>1, CleanupItems DEF Track
  <2>2. CASE cmd = "rollback"
    BY <1>1, <1>2, <2>2, CleanupItems DEF Track
  <2>3. CASE cmd = "repair"
    BY <1>1, <1>2, <2>3, CleanupItems DEF Track
  <2>4. CASE cmd = "install"
    BY <1>1, <1>2, <2>4, CleanupItems DEF Track
  <2>5. CASE cmd = "hooks"
    BY <1>1, <1>2, <2>5, CleanupItems DEF Track
  <2>6. CASE cmd = "start"
    BY <1>1, <1>2, <2>6, CleanupItems DEF Track
  <2>7. CASE cmd = "first"
    BY <1>1, <1>2, <2>7, CleanupItems DEF Track
  <2>8. CASE cmd = "uninstall"
    BY <1>1, <1>2, <2>8, CleanupItems DEF Track
  <2>. QED BY <1>2, <2>1, <2>2, <2>3, <2>4, <2>5, <2>6, <2>7, <2>8 DEF Names
<1>3. CASE ~cleaning
  <2>1. CASE cmd = "update"
    BY <1>1, <1>3, <2>1, StepItems DEF Track
  <2>2. CASE cmd = "rollback"
    BY <1>1, <1>3, <2>2, StepItems DEF Track
  <2>3. CASE cmd = "repair"
    BY <1>1, <1>3, <2>3, StepItems DEF Track
  <2>4. CASE cmd = "install"
    BY <1>1, <1>3, <2>4, StepItems DEF Track
  <2>5. CASE cmd = "hooks"
    BY <1>1, <1>3, <2>5, StepItems DEF Track
  <2>6. CASE cmd = "start"
    BY <1>1, <1>3, <2>6, StepItems DEF Track
  <2>7. CASE cmd = "first"
    BY <1>1, <1>3, <2>7, StepItems DEF Track
  <2>8. CASE cmd = "uninstall"
    BY <1>1, <1>3, <2>8, StepItems DEF Track
  <2>. QED BY <1>3, <2>1, <2>2, <2>3, <2>4, <2>5, <2>6, <2>7, <2>8 DEF Names
<1>. QED BY <1>2, <1>3

\* What a step comes after.
LEMMA Order ==
  ASSUME OnTrack, cmd \in Names, cleaning \in BOOLEAN, todo # <<>>
  PROVE  IF cleaning
         THEN /\ cmd = "update" /\ Head(todo) = "version" => Past("bootout")
              /\ cmd = "update" /\ Head(todo) = "service" => Past("bootout") /\ Past("version")
              /\ cmd = "update" /\ Head(todo) = "release" => Past("files") /\ Past("version")
              /\ cmd = "rollback" /\ Head(todo) = "service" => Past("bootout") /\ Past("version")
              /\ cmd = "repair" /\ Head(todo) = "service" => Past("bootout")
              /\ cmd = "install" /\ Head(todo) = "service" => Past("bootout") /\ Past("version")
              /\ cmd = "install" /\ Head(todo) = "release" => Past("files") /\ Past("version")
              /\ cmd = "uninstall" /\ Head(todo) = "files" => Past("unquarantine")
              /\ cmd = "uninstall" /\ Head(todo) = "version" => Past("unquarantine")
              /\ cmd = "uninstall" /\ Head(todo) = "service" => Past("version") /\ Past("unquarantine")
         ELSE /\ cmd = "update" /\ Head(todo) = "state" => Past("publish")
              /\ cmd = "update" /\ Head(todo) = "service" => Past("activate")
              /\ cmd = "install" /\ Head(todo) = "state" => Past("publish")
              /\ cmd = "install" /\ Head(todo) = "service" => Past("pending")
              /\ cmd = "uninstall" /\ Head(todo) = "quarantine" => Past("drop") /\ Past("unlink")
<1>1. Track \in Seq(AllSteps) /\ Injective(Track) /\ Ends(todo, Track)
  BY TrackTyped DEF OnTrack, Names
<1>2. ASSUME NEW m \in 1 .. Len(Track), Head(todo) = Track[m]
      PROVE  \A k \in 1 .. m - 1 : Past(Track[k])
  BY <1>1, <1>2, Passed DEF Past, Left
<1>3. CASE cleaning /\ cmd = "update" /\ Head(todo) = "version"
  <2>1. Track = <<"bootout", "files", "rehook", "version", "service", "release">>
    BY <1>3 DEF Track, Steps, Cleanup
  <2>2. 4 \in 1 .. Len(Track) /\ Track[4] = "version"
    BY <2>1
  <2>3. \A k \in 1 .. 3 : Past(Track[k])
    BY <1>2, <1>3, <2>2
  <2>4. Track[1] = "bootout"
    BY <2>1
  <2>. QED BY <1>3, <2>3, <2>4
<1>4. CASE cleaning /\ cmd = "update" /\ Head(todo) = "service"
  <2>1. Track = <<"bootout", "files", "rehook", "version", "service", "release">>
    BY <1>4 DEF Track, Steps, Cleanup
  <2>2. 5 \in 1 .. Len(Track) /\ Track[5] = "service"
    BY <2>1
  <2>3. \A k \in 1 .. 4 : Past(Track[k])
    BY <1>2, <1>4, <2>2
  <2>4. Track[1] = "bootout" /\ Track[4] = "version"
    BY <2>1
  <2>. QED BY <1>4, <2>3, <2>4
<1>5. CASE cleaning /\ cmd = "update" /\ Head(todo) = "release"
  <2>1. Track = <<"bootout", "files", "rehook", "version", "service", "release">>
    BY <1>5 DEF Track, Steps, Cleanup
  <2>2. 6 \in 1 .. Len(Track) /\ Track[6] = "release"
    BY <2>1
  <2>3. \A k \in 1 .. 5 : Past(Track[k])
    BY <1>2, <1>5, <2>2
  <2>4. Track[2] = "files" /\ Track[4] = "version"
    BY <2>1
  <2>. QED BY <1>5, <2>3, <2>4
<1>6. CASE cleaning /\ cmd = "rollback" /\ Head(todo) = "service"
  <2>1. Track = <<"bootout", "files", "rehook", "version", "service">>
    BY <1>6 DEF Track, Steps, Cleanup
  <2>2. 5 \in 1 .. Len(Track) /\ Track[5] = "service"
    BY <2>1
  <2>3. \A k \in 1 .. 4 : Past(Track[k])
    BY <1>2, <1>6, <2>2
  <2>4. Track[1] = "bootout" /\ Track[4] = "version"
    BY <2>1
  <2>. QED BY <1>6, <2>3, <2>4
<1>7. CASE cleaning /\ cmd = "repair" /\ Head(todo) = "service"
  <2>1. Track = <<"bootout", "files", "rehook", "service">>
    BY <1>7 DEF Track, Steps, Cleanup
  <2>2. 4 \in 1 .. Len(Track) /\ Track[4] = "service"
    BY <2>1
  <2>3. \A k \in 1 .. 3 : Past(Track[k])
    BY <1>2, <1>7, <2>2
  <2>4. Track[1] = "bootout"
    BY <2>1
  <2>. QED BY <1>7, <2>3, <2>4
<1>8. CASE cleaning /\ cmd = "install" /\ Head(todo) = "service"
  <2>1. Track = <<"unpend", "bootout", "clirehook", "files", "version", "service", "release",
                    "forget">>
    BY <1>8 DEF Track, Steps, Cleanup
  <2>2. 6 \in 1 .. Len(Track) /\ Track[6] = "service"
    BY <2>1
  <2>3. \A k \in 1 .. 5 : Past(Track[k])
    BY <1>2, <1>8, <2>2
  <2>4. Track[2] = "bootout" /\ Track[5] = "version"
    BY <2>1
  <2>. QED BY <1>8, <2>3, <2>4
<1>9. CASE cleaning /\ cmd = "install" /\ Head(todo) = "release"
  <2>1. Track = <<"unpend", "bootout", "clirehook", "files", "version", "service", "release",
                    "forget">>
    BY <1>9 DEF Track, Steps, Cleanup
  <2>2. 7 \in 1 .. Len(Track) /\ Track[7] = "release"
    BY <2>1
  <2>3. \A k \in 1 .. 6 : Past(Track[k])
    BY <1>2, <1>9, <2>2
  <2>4. Track[4] = "files" /\ Track[5] = "version"
    BY <2>1
  <2>. QED BY <1>9, <2>3, <2>4
<1>10. CASE cleaning /\ cmd = "uninstall" /\ Head(todo) = "files"
  <2>1. Track = <<"unquarantine", "files", "rehook", "version", "service">>
    BY <1>10 DEF Track, Steps, Cleanup
  <2>2. 2 \in 1 .. Len(Track) /\ Track[2] = "files"
    BY <2>1
  <2>3. \A k \in 1 .. 1 : Past(Track[k])
    BY <1>2, <1>10, <2>2
  <2>4. Track[1] = "unquarantine"
    BY <2>1
  <2>. QED BY <1>10, <2>3, <2>4
<1>11. CASE cleaning /\ cmd = "uninstall" /\ Head(todo) = "version"
  <2>1. Track = <<"unquarantine", "files", "rehook", "version", "service">>
    BY <1>11 DEF Track, Steps, Cleanup
  <2>2. 4 \in 1 .. Len(Track) /\ Track[4] = "version"
    BY <2>1
  <2>3. \A k \in 1 .. 3 : Past(Track[k])
    BY <1>2, <1>11, <2>2
  <2>4. Track[1] = "unquarantine"
    BY <2>1
  <2>. QED BY <1>11, <2>3, <2>4
<1>12. CASE cleaning /\ cmd = "uninstall" /\ Head(todo) = "service"
  <2>1. Track = <<"unquarantine", "files", "rehook", "version", "service">>
    BY <1>12 DEF Track, Steps, Cleanup
  <2>2. 5 \in 1 .. Len(Track) /\ Track[5] = "service"
    BY <2>1
  <2>3. \A k \in 1 .. 4 : Past(Track[k])
    BY <1>2, <1>12, <2>2
  <2>4. Track[4] = "version" /\ Track[1] = "unquarantine"
    BY <2>1
  <2>. QED BY <1>12, <2>3, <2>4
<1>13. CASE ~cleaning /\ cmd = "update" /\ Head(todo) = "state"
  <2>1. Track = <<"publish", "config", "launcher", "activate", "agent", "hooks", "state",
                    "service", "smoke", "done">>
    BY <1>13 DEF Track, Steps, Cleanup
  <2>2. 7 \in 1 .. Len(Track) /\ Track[7] = "state"
    BY <2>1
  <2>3. \A k \in 1 .. 6 : Past(Track[k])
    BY <1>2, <1>13, <2>2
  <2>4. Track[1] = "publish"
    BY <2>1
  <2>. QED BY <1>13, <2>3, <2>4
<1>14. CASE ~cleaning /\ cmd = "update" /\ Head(todo) = "service"
  <2>1. Track = <<"publish", "config", "launcher", "activate", "agent", "hooks", "state",
                    "service", "smoke", "done">>
    BY <1>14 DEF Track, Steps, Cleanup
  <2>2. 8 \in 1 .. Len(Track) /\ Track[8] = "service"
    BY <2>1
  <2>3. \A k \in 1 .. 7 : Past(Track[k])
    BY <1>2, <1>14, <2>2
  <2>4. Track[4] = "activate"
    BY <2>1
  <2>. QED BY <1>14, <2>3, <2>4
<1>15. CASE ~cleaning /\ cmd = "install" /\ Head(todo) = "state"
  <2>1. Track = <<"publish", "activate", "config", "launcher", "agent", "hooks", "state",
                    "pending", "service", "smoke", "done">>
    BY <1>15 DEF Track, Steps, Cleanup
  <2>2. 7 \in 1 .. Len(Track) /\ Track[7] = "state"
    BY <2>1
  <2>3. \A k \in 1 .. 6 : Past(Track[k])
    BY <1>2, <1>15, <2>2
  <2>4. Track[1] = "publish"
    BY <2>1
  <2>. QED BY <1>15, <2>3, <2>4
<1>16. CASE ~cleaning /\ cmd = "install" /\ Head(todo) = "service"
  <2>1. Track = <<"publish", "activate", "config", "launcher", "agent", "hooks", "state",
                    "pending", "service", "smoke", "done">>
    BY <1>16 DEF Track, Steps, Cleanup
  <2>2. 9 \in 1 .. Len(Track) /\ Track[9] = "service"
    BY <2>1
  <2>3. \A k \in 1 .. 8 : Past(Track[k])
    BY <1>2, <1>16, <2>2
  <2>4. Track[8] = "pending"
    BY <2>1
  <2>. QED BY <1>16, <2>3, <2>4
<1>17. CASE ~cleaning /\ cmd = "uninstall" /\ Head(todo) = "quarantine"
  <2>1. Track = <<"bootout", "unhook", "unlink", "drop", "quarantine", "delete">>
    BY <1>17 DEF Track, Steps, Cleanup
  <2>2. 5 \in 1 .. Len(Track) /\ Track[5] = "quarantine"
    BY <2>1
  <2>3. \A k \in 1 .. 4 : Past(Track[k])
    BY <1>2, <1>17, <2>2
  <2>4. Track[4] = "drop" /\ Track[3] = "unlink"
    BY <2>1
  <2>. QED BY <1>17, <2>3, <2>4
<1>. QED BY <1>3, <1>4, <1>5, <1>6, <1>7, <1>8, <1>9, <1>10, <1>11, <1>12, <1>13, <1>14, <1>15, <1>16, <1>17

\* The last step of a transition.
LEMMA LastStep ==
  ASSUME OnTrack, cmd \in {"update", "rollback", "repair"}, cleaning = FALSE, todo # <<>>,
         Head(todo) = "done"
  PROVE  Left = {"done"}
<1>. USE DEF Names
<1>1. Track \in Seq(AllSteps) /\ Injective(Track) /\ Ends(todo, Track)
  BY TrackTyped DEF OnTrack
<1>2. Track[Len(Track)] = "done" /\ Len(Track) \in 1 .. Len(Track)
  <2>1. CASE cmd = "update"
    <3>1. Track = <<"publish", "config", "launcher", "activate", "agent", "hooks", "state",
                      "service", "smoke", "done">>
      BY <2>1 DEF Track, Steps
    <3>. QED BY <3>1
  <2>2. CASE cmd = "rollback"
    <3>1. Track = <<"activate", "config", "launcher", "agent", "hooks", "state", "service",
                      "smoke", "done">>
      BY <2>2 DEF Track, Steps
    <3>. QED BY <3>1
  <2>3. CASE cmd = "repair"
    <3>1. Track = <<"config", "launcher", "agent", "hooks", "state", "service", "smoke", "done">>
      BY <2>3 DEF Track, Steps
    <3>. QED BY <3>1
  <2>. QED BY <2>1, <2>2, <2>3
<1>3. \A k \in 1 .. Len(Track) - 1 : Track[k] \notin Left
  BY <1>1, <1>2, Passed DEF Left
<1>4. ASSUME NEW x \in Left, x # "done" PROVE FALSE
  <2>1. x \in Items(Track)
    BY <1>1, EndItems DEF Left
  <2>2. PICK k \in 1 .. Len(Track) : x = Track[k]
    BY <2>1 DEF Items
  <2>. QED BY <1>1, <1>2, <1>3, <1>4, <2>2
<1>. QED BY <1>1, <1>4, TailEnds DEF Left

-----------------------------------------------------------------------------
(* How a step leaves the command *)

Running == cmd \in Names /\ todo # <<>>

Ongoing == UNCHANGED <<cleaning, errors, conflicted, torn>>
Stays == todo' = todo /\ Left' = Left /\ Ongoing
Goes == Left' = Left \ {Head(todo)} /\ Ongoing
\* An update with nothing to put back.
Skips == /\ cleaning /\ cmd = "update" /\ Head(todo) = "version" /\ mine.link = NoLink
         /\ ~(before.current # NoLink /\ mine.attempted /\ mine.stopped)
         /\ Left' = Left \ {"version", "service"} /\ Ongoing
\* The failure that begins the cleanup.
Turns == /\ cleaning = FALSE /\ cleaning' = TRUE /\ Left' = Items(Cleanup(cmd))
         /\ IF cmd = "first" /\ Head(todo) # "service" THEN errors' = TRUE /\ conflicted' = TRUE
                                                       ELSE UNCHANGED <<errors, conflicted>>
         /\ torn \subseteq torn'
\* A failure of the cleanup.
Reports == /\ cleaning = TRUE /\ cleaning' = TRUE /\ errors' = TRUE /\ conflicted' = TRUE
           /\ Left' \subseteq Left /\ torn \subseteq torn'
\* The action file of a transition that is over.
Late == /\ cleaning = FALSE /\ cmd \in {"update", "rollback", "repair"} /\ Head(todo) = "done"
        /\ Left' = Left \ {"done"} /\ errors' = TRUE
        /\ UNCHANGED <<cleaning, conflicted, torn>> /\ todo' = <<>>

Moves == Steady /\ OnTrack' /\ (Stays \/ Goes \/ Skips \/ Turns \/ Reports \/ Late)

\* A step that is done leaves the list.
LEMMA Advancing ==
  ASSUME Base, Running, Advance
  PROVE  Moves /\ Goes
<1>1. Track' = Track
  BY DEF Advance, Steady, Track
<1>2. Ends(Tail(todo), Track) /\ Items(Tail(todo)) = Left \ {Head(todo)}
  BY TrackTyped, TailEnds DEF Base, Typed, Running, OnTrack, Names, Left
<1>. QED BY <1>1, <1>2 DEF Advance, Steady, Moves, Goes, Ongoing, OnTrack, Running, Names, Left

\* The next step is one of those left.
LEMMA GoesOnHead ==
  ASSUME Base, Running
  PROVE  Head(todo) \in Left /\ Head(todo) \in AllSteps
BY TrackTyped, TailEnds DEF Base, Typed, Running, OnTrack, Names, Left

\* A step that goes on stays in front of the list.
LEMMA Repeating ==
  ASSUME Base, Running, Repeat
  PROVE  Moves /\ Stays
BY DEF Base, Repeat, Steady, Moves, Stays, Ongoing, OnTrack, Track, Left

\* What follows the version in the cleanup of an update.
LEMMA AfterVersion ==
  ASSUME Base, cmd = "update", cleaning = TRUE, todo # <<>>, Head(todo) = "version"
  PROVE  /\ Tail(todo) # <<>> /\ Head(Tail(todo)) = "service"
         /\ Ends(Tail(Tail(todo)), Track)
         /\ Items(Tail(Tail(todo))) = Left \ {"version", "service"}
<1>1. Track \in Seq(AllSteps) /\ Injective(Track) /\ Ends(todo, Track)
  BY TrackTyped DEF Base, OnTrack, Names
<1>2. Track = <<"bootout", "files", "rehook", "version", "service", "release">>
  BY DEF Track, Cleanup
<1>3. 4 \in 1 .. Len(Track) /\ Len(Track) = 6 /\ Track[4] = "version" /\ Track[5] = "service"
  BY <1>2
<1>4. Tail(todo) # <<>> /\ Head(Tail(todo)) = "service"
  <2>1. 4 < Len(Track) => Tail(todo) # <<>> /\ Head(Tail(todo)) = Track[4 + 1]
    BY <1>1, <1>3, Passed
  <2>. QED BY <1>3, <2>1
<1>5. Ends(Tail(todo), Track) /\ Items(Tail(todo)) = Left \ {"version"}
  BY <1>1, TailEnds DEF Left
<1>6. /\ Ends(Tail(Tail(todo)), Track)
      /\ Items(Tail(Tail(todo))) = Items(Tail(todo)) \ {"service"}
  BY <1>1, <1>4, <1>5, TailEnds
<1>. QED BY <1>4, <1>5, <1>6

\* A failure begins the cleanup, or the cleanup reports it and goes on.
LEMMA FailingMoves ==
  ASSUME Base, Running, Failing, torn \subseteq torn'
  PROVE  Moves /\ (Turns \/ Reports)
<1>1. cleaning \in BOOLEAN /\ errors \in BOOLEAN /\ conflicted \in BOOLEAN
  BY DEF Base, Typed
<1>2. CASE cleaning = FALSE
  <2>1. todo' = Cleanup(cmd) /\ cleaning' = TRUE /\ Steady
    BY <1>2 DEF Failing
  <2>2. Cleanup(cmd) \in Seq(AllSteps)
    BY TracksTyped DEF Running
  <2>3. OnTrack'
    BY <2>1, <2>2, WholeEnds DEF OnTrack, Track, Running, Names, Steady
  <2>4. Turns
    BY <1>1, <1>2, <2>1 DEF Failing, Turns, Left, Doing, Running, Names
  <2>. QED BY <2>1, <2>3, <2>4 DEF Moves
<1>3. CASE cleaning = TRUE
  <2>1. cleaning' = TRUE /\ errors' = TRUE /\ conflicted' = TRUE /\ Steady
    BY <1>1, <1>3 DEF Failing
  <2>2. Track' = Track
    BY <1>3, <2>1 DEF Steady, Track
  <2>3. Ends(todo', Track) /\ Items(todo') \subseteq Left
    <3>1. CASE cmd = "update" /\ Head(todo) = "version"
      BY <1>3, <3>1, AfterVersion DEF Failing, Running
    <3>2. CASE ~(cmd = "update" /\ Head(todo) = "version")
      <4>1. todo' = Tail(todo)
        BY <1>3, <3>2 DEF Failing
      <4>. QED BY <4>1, TrackTyped, TailEnds DEF Base, Typed, Running, OnTrack, Names, Left
    <3>. QED BY <3>1, <3>2
  <2>4. OnTrack'
    BY <2>1, <2>2, <2>3 DEF OnTrack, Steady, Running, Names
  <2>5. Reports
    BY <1>3, <2>1, <2>3 DEF Reports, Left
  <2>. QED BY <2>1, <2>4, <2>5 DEF Moves
<1>. QED BY <1>1, <1>2, <1>3

\* So does a conflict with another program.
LEMMA Conflicting ==
  ASSUME Base, Running, Conflict
  PROVE  Moves /\ (Turns \/ Reports)
<1>1. Failing /\ torn \subseteq torn'
  BY DEF Conflict
<1>. QED BY <1>1, FailingMoves

\* An update that switched nothing and stopped nothing puts no version back and starts none.
LEMMA SkipMoves ==
  ASSUME Base, RestoreVersion, cmd = "update", mine.link = NoLink,
         ~(before.current # NoLink /\ mine.attempted /\ mine.stopped)
  PROVE  Moves /\ Skips
<1>1. /\ cleaning = TRUE /\ todo # <<>> /\ Head(todo) = "version"
      /\ todo' = Tail(Tail(todo)) /\ Ongoing /\ Steady
  BY DEF RestoreVersion, Undoing, Base, Typed, Ongoing
<1>2. Ends(todo', Track) /\ Items(todo') = Left \ {"version", "service"}
  BY <1>1, AfterVersion
<1>3. Track' = Track
  BY <1>1 DEF Ongoing, Steady, Track
<1>. QED BY <1>1, <1>2, <1>3 DEF Moves, Skips, OnTrack, Left, Steady, Ongoing

\* An action file that could not be written comes after the transition (update, rollback, repair).
LEMMA EndMoves ==
  ASSUME Base, FaultAtTheEnd
  PROVE  Moves /\ Late
<1>1. /\ cleaning = FALSE /\ todo # <<>> /\ Head(todo) = "done" /\ Steady
      /\ cmd \in {"update", "rollback", "repair"}
      /\ todo' = <<>> /\ errors' = TRUE /\ UNCHANGED <<cleaning, conflicted, torn>>
  BY DEF FaultAtTheEnd, Doing, Base, Typed
<1>2. Left = {"done"}
  BY <1>1, LastStep DEF Base
<1>3. Left' = {}
  BY <1>1 DEF Left, Items
<1>4. OnTrack'
  <2>1. Track' = Track /\ Track \in Seq(AllSteps)
    BY <1>1, TrackTyped DEF Track, Steady, Names
  <2>2. Ends(<<>>, Track)
    BY <2>1 DEF Ends
  <2>. QED BY <1>1, <2>1, <2>2 DEF OnTrack, Steady
<1>. QED BY <1>1, <1>2, <1>3, <1>4 DEF Moves, Late

-----------------------------------------------------------------------------
(* How each step leaves the command *)

\* The release is copied, or was there; a failed copy is a fault (_publish_release).
LEMMA PublishWay ==
  ASSUME Base, Publish
  PROVE  Running /\ Moves /\ cleaning = FALSE /\ Head(todo) = "publish" /\ Goes
<1>1. Running /\ cleaning = FALSE /\ Head(todo) = "publish"
  BY DEF Publish, Doing, Undoing, Running, Base, Typed
<1>2. Advance
  BY DEF Publish
<1>. QED BY <1>1, <1>2, Advancing

\* The link is exchanged, or is no longer the one found (_activate_release).
LEMMA ActivateWay ==
  ASSUME Base, Activate
  PROVE  Running /\ Moves /\ cleaning = FALSE /\ Head(todo) = "activate" /\ (Goes \/ Turns)
<1>1. Running /\ cleaning = FALSE /\ Head(todo) = "activate"
  BY DEF Activate, Doing, Undoing, Running, Base, Typed
<1>2. Advance \/ Conflict
  BY DEF Activate, Exchange
<1>. QED BY <1>1, <1>2, Advancing, Conflicting DEF Turns, Reports

\* A managed file is written: the next step follows.
LEMMA WriteFileWay ==
  ASSUME Base, WriteFile
  PROVE  Running /\ Moves /\ cleaning = FALSE /\ Head(todo) \in {"config", "launcher", "agent", "state"} /\ Goes
<1>1. Running /\ cleaning = FALSE /\ Head(todo) \in {"config", "launcher", "agent", "state"}
  BY DEF WriteFile, Doing, Undoing, Running, Base, Typed
<1>2. Advance
  BY DEF WriteFile
<1>. QED BY <1>1, <1>2, Advancing

\* The action file is written: the next step follows.
LEMMA WriteActionWay ==
  ASSUME Base, WriteAction
  PROVE  Running /\ Moves /\ cleaning = FALSE /\ Head(todo) \in {"pending", "done"} /\ Goes
<1>1. Running /\ cleaning = FALSE /\ Head(todo) \in {"pending", "done"}
  BY DEF WriteAction, Doing, Undoing, Running, Base, Typed
<1>2. Advance
  BY DEF WriteAction
<1>. QED BY <1>1, <1>2, Advancing

\* The service answers, or the cleanup begins.
LEMMA StartServiceWay ==
  ASSUME Base, StartService
  PROVE  Running /\ Moves /\ cleaning = FALSE /\ Head(todo) = "service" /\ (Goes \/ Turns)
<1>1. Running /\ cleaning = FALSE /\ Head(todo) = "service"
  BY DEF StartService, Doing, Undoing, Running, Base, Typed
<1>2. Advance \/ Conflict
  BY DEF StartService
<1>. QED BY <1>1, <1>2, Advancing, Conflicting DEF Turns, Reports

\* The hooks answer, or the cleanup begins.
LEMMA SmokeWay ==
  ASSUME Base, Smoke
  PROVE  Running /\ Moves /\ cleaning = FALSE /\ Head(todo) = "smoke" /\ (Goes \/ Turns)
<1>1. Running /\ cleaning = FALSE /\ Head(todo) = "smoke"
  BY DEF Smoke, Doing, Undoing, Running, Base, Typed
<1>2. Advance \/ Conflict
  BY DEF Smoke
<1>. QED BY <1>1, <1>2, Advancing, Conflicting DEF Turns, Reports

\* The service is stopped, by uninstall and by the cleanups.
LEMMA BootoutWay ==
  ASSUME Base, Bootout
  PROVE  Running /\ Moves /\ Head(todo) = "bootout" /\ Goes
<1>1. Running /\ Head(todo) = "bootout"
  BY DEF Bootout, Doing, Undoing, Running, Base, Typed
<1>2. Advance
  BY DEF Bootout
<1>. QED BY <1>1, <1>2, Advancing

\* Uninstall removes the files one by one.
LEMMA UnlinkFileWay ==
  ASSUME Base, UnlinkFile
  PROVE  Running /\ Moves /\ cleaning = FALSE /\ Head(todo) = "unlink" /\ (Goes \/ Stays)
<1>1. Running /\ cleaning = FALSE /\ Head(todo) = "unlink"
  BY DEF UnlinkFile, Doing, Undoing, Running, Base, Typed
<1>2. Advance \/ Repeat
  BY DEF UnlinkFile
<1>. QED BY <1>1, <1>2, Advancing, Repeating

\* Uninstall removes the link it found, or turns back.
LEMMA DropCurrentWay ==
  ASSUME Base, DropCurrent
  PROVE  Running /\ Moves /\ cleaning = FALSE /\ Head(todo) = "drop" /\ (Goes \/ Turns)
<1>1. Running /\ cleaning = FALSE /\ Head(todo) = "drop"
  BY DEF DropCurrent, Doing, Undoing, Running, Base, Typed
<1>2. Advance \/ Conflict
  BY DEF DropCurrent
<1>. QED BY <1>1, <1>2, Advancing, Conflicting DEF Turns, Reports

\* Uninstall moves the releases aside one by one.
LEMMA QuarantineWay ==
  ASSUME Base, Quarantine
  PROVE  Running /\ Moves /\ cleaning = FALSE /\ Head(todo) = "quarantine" /\ (Goes \/ Stays)
<1>1. Running /\ cleaning = FALSE /\ Head(todo) = "quarantine"
  BY DEF Quarantine, Doing, Undoing, Running, Base, Typed
<1>2. Advance \/ Repeat
  BY DEF Quarantine
<1>. QED BY <1>1, <1>2, Advancing, Repeating

\* Uninstall deletes what it moved aside.
LEMMA DeleteQuarantinedWay ==
  ASSUME Base, DeleteQuarantined
  PROVE  Running /\ Moves /\ cleaning = FALSE /\ Head(todo) = "delete" /\ (Goes \/ Stays)
<1>1. Running /\ cleaning = FALSE /\ Head(todo) = "delete"
  BY DEF DeleteQuarantined, Doing, Undoing, Running, Base, Typed
<1>2. Advance \/ Repeat
  BY DEF DeleteQuarantined
<1>. QED BY <1>1, <1>2, Advancing, Repeating

\* Nothing to change in the hooks, or their writer begins.
LEMMA ReadHookWay ==
  ASSUME Base, ReadHook
  PROVE  Running /\ Moves /\ cleaning = FALSE /\ Head(todo) \in {"hooks", "unhook"} /\ (Goes \/ Stays)
<1>1. Running /\ cleaning = FALSE /\ Head(todo) \in {"hooks", "unhook"}
  BY DEF ReadHook, Doing, Undoing, Running, Base, Typed
<1>2. Advance \/ Repeat
  BY DEF ReadHook
<1>. QED BY <1>1, <1>2, Advancing, Repeating

\* A source that changed makes the command turn back.
LEMMA RefuseHookWay ==
  ASSUME Base, RefuseHook
  PROVE  Running /\ Moves /\ cleaning = FALSE /\ Head(todo) \in {"hooks", "unhook"} /\ Turns
<1>1. Running /\ cleaning = FALSE /\ Head(todo) \in {"hooks", "unhook"}
  BY DEF RefuseHook, Doing, Undoing, Running, Base, Typed, Writing
<1>2. Conflict
  BY DEF RefuseHook
<1>. QED BY <1>1, <1>2, Conflicting DEF Turns, Reports

\* The exchange is followed by the look at what it displaced.
LEMMA ExchangeHookWay ==
  ASSUME Base, ExchangeHook
  PROVE  Running /\ Moves /\ cleaning = FALSE /\ Head(todo) \in {"hooks", "unhook"} /\ Stays
<1>1. Running /\ cleaning = FALSE /\ Head(todo) \in {"hooks", "unhook"}
  BY DEF ExchangeHook, Doing, Undoing, Running, Base, Typed, Writing
<1>2. Repeat
  BY DEF ExchangeHook
<1>. QED BY <1>1, <1>2, Repeating

\* A committed configuration ends the step, or is noted first.
LEMMA CommitHookWay ==
  ASSUME Base, CommitHook
  PROVE  Running /\ Moves /\ cleaning = FALSE /\ Head(todo) \in {"hooks", "unhook"} /\ (Goes \/ Stays)
<1>1. Running /\ cleaning = FALSE /\ Head(todo) \in {"hooks", "unhook"}
  BY DEF CommitHook, Doing, Undoing, Running, Base, Typed, Writing
<1>2. Advance \/ Repeat
  BY DEF CommitHook
<1>. QED BY <1>1, <1>2, Advancing, Repeating

\* Another file in place makes the command turn back.
LEMMA YieldHookWay ==
  ASSUME Base, YieldHook
  PROVE  Running /\ Moves /\ cleaning = FALSE /\ Head(todo) \in {"hooks", "unhook"} /\ Turns
<1>1. Running /\ cleaning = FALSE /\ Head(todo) \in {"hooks", "unhook"}
  BY DEF YieldHook, Doing, Undoing, Running, Base, Typed, Writing
<1>2. Conflict
  BY DEF YieldHook
<1>. QED BY <1>1, <1>2, Conflicting DEF Turns, Reports

\* What was displaced is put back until the recovery ends, and the command turns back.
LEMMA RecoverHookWay ==
  ASSUME Base, RecoverHook
  PROVE  Running /\ Moves /\ cleaning = FALSE /\ Head(todo) \in {"hooks", "unhook"} /\ (Turns \/ Stays)
<1>1. Running /\ cleaning = FALSE /\ Head(todo) \in {"hooks", "unhook"}
  BY DEF RecoverHook, Doing, Undoing, Running, Base, Typed, Writing
<1>2. Repeat \/ Conflict
  BY DEF RecoverHook
<1>. QED BY <1>1, <1>2, Repeating, Conflicting DEF Turns, Reports

\* The first run notes the configuration it switched off.
LEMMA ReplacePlainlyWay ==
  ASSUME Base, ReplacePlainly
  PROVE  Running /\ Moves /\ cleaning = FALSE /\ Head(todo) \in {"hooks", "unhook"} /\ Stays
<1>1. Running /\ cleaning = FALSE /\ Head(todo) \in {"hooks", "unhook"}
  BY DEF ReplacePlainly, Doing, Undoing, Running, Base, Typed, Writing
<1>2. Repeat
  BY DEF ReplacePlainly
<1>. QED BY <1>1, <1>2, Repeating

\* The configuration is noted: the step is done.
LEMMA NoteHookWay ==
  ASSUME Base, NoteHook
  PROVE  Running /\ Moves /\ cleaning = FALSE /\ Head(todo) \in {"hooks", "unhook"} /\ Goes
<1>1. Running /\ cleaning = FALSE /\ Head(todo) \in {"hooks", "unhook"}
  BY DEF NoteHook, Doing, Undoing, Running, Base, Typed, Writing
<1>2. Advance
  BY DEF NoteHook
<1>. QED BY <1>1, <1>2, Advancing

\* The files are put back one by one; one that uninstall unlinked unnoted is reported.
LEMMA RestoreFileWay ==
  ASSUME Base, RestoreFile
  PROVE  Running /\ Moves /\ cleaning = TRUE /\ Head(todo) = "files" /\ (Goes \/ Stays \/ Reports)
<1>1. Running /\ cleaning = TRUE /\ Head(todo) = "files"
  BY DEF RestoreFile, Doing, Undoing, Running, Base, Typed
<1>2. Advance \/ Repeat \/ Conflict
  BY DEF RestoreFile
<1>. QED BY <1>1, <1>2, Advancing, Repeating, Conflicting DEF Turns, Reports

\* The pending action is withdrawn.
LEMMA WithdrawActionWay ==
  ASSUME Base, WithdrawAction
  PROVE  Running /\ Moves /\ cleaning = TRUE /\ Head(todo) = "unpend" /\ Goes
<1>1. Running /\ cleaning = TRUE /\ Head(todo) = "unpend"
  BY DEF WithdrawAction, Doing, Undoing, Running, Base, Typed
<1>2. Advance
  BY DEF WithdrawAction
<1>. QED BY <1>1, <1>2, Advancing

\* The configuration is claimed, or there is nothing to put back, or it is another.
LEMMA ClaimHookWay ==
  ASSUME Base, ClaimHook
  PROVE  Running /\ Moves /\ cleaning = TRUE /\ Head(todo) = "rehook" /\ (Goes \/ Stays \/ Reports)
<1>1. Running /\ cleaning = TRUE /\ Head(todo) = "rehook"
  BY DEF ClaimHook, Doing, Undoing, Running, Base, Typed
<1>2. Advance \/ Repeat \/ Conflict
  BY DEF ClaimHook
<1>. QED BY <1>1, <1>2, Advancing, Repeating, Conflicting DEF Turns, Reports

\* The old configuration takes the free name, or finds it taken.
LEMMA PutHookBackWay ==
  ASSUME Base, PutHookBack
  PROVE  Running /\ Moves /\ cleaning = TRUE /\ Head(todo) = "rehook" /\ (Goes \/ Reports)
<1>1. Running /\ cleaning = TRUE /\ Head(todo) = "rehook"
  BY DEF PutHookBack, Doing, Undoing, Running, Base, Typed, Writing
<1>2. Advance \/ Conflict
  BY DEF PutHookBack
<1>. QED BY <1>1, <1>2, Advancing, Conflicting DEF Turns, Reports

\* The command line replaces what it noted, and reports anything else.
LEMMA CompareHookWay ==
  ASSUME Base, CompareHook
  PROVE  Running /\ Moves /\ cleaning = TRUE /\ Head(todo) = "clirehook" /\ (Goes \/ Stays \/ Reports)
<1>1. Running /\ cleaning = TRUE /\ Head(todo) = "clirehook"
  BY DEF CompareHook, Doing, Undoing, Running, Base, Typed
<1>2. Advance \/ Repeat \/ Conflict
  BY DEF CompareHook
<1>. QED BY <1>1, <1>2, Advancing, Repeating, Conflicting DEF Turns, Reports

\* The replacement by the command line ends the step.
LEMMA ReplaceWithOldWay ==
  ASSUME Base, ReplaceWithOld
  PROVE  Running /\ Moves /\ cleaning = TRUE /\ Head(todo) = "clirehook" /\ Goes
<1>1. Running /\ cleaning = TRUE /\ Head(todo) = "clirehook"
  BY DEF ReplaceWithOld, Doing, Undoing, Running, Base, Typed, Writing
<1>2. Advance
  BY DEF ReplaceWithOld
<1>. QED BY <1>1, <1>2, Advancing

\* The backup of an install that was undone goes.
LEMMA ForgetBackupWay ==
  ASSUME Base, ForgetBackup
  PROVE  Running /\ Moves /\ cleaning = TRUE /\ Head(todo) = "forget" /\ Goes
<1>1. Running /\ cleaning = TRUE /\ Head(todo) = "forget"
  BY DEF ForgetBackup, Doing, Undoing, Running, Base, Typed
<1>2. Advance
  BY DEF ForgetBackup
<1>. QED BY <1>1, <1>2, Advancing

\* The version is put back, or an update skips it, or it is reported.
LEMMA RestoreVersionWay ==
  ASSUME Base, RestoreVersion
  PROVE  Running /\ Moves /\ cleaning = TRUE /\ Head(todo) = "version" /\ (Goes \/ Skips \/ Reports)
<1>1. Running /\ cleaning = TRUE /\ Head(todo) = "version"
  BY DEF RestoreVersion, Doing, Undoing, Running, Base, Typed
<1>2. CASE /\ cmd = "update" /\ mine.link = NoLink
            /\ ~(before.current # NoLink /\ mine.attempted /\ mine.stopped)
  BY <1>1, <1>2, SkipMoves
<1>3. CASE ~(/\ cmd = "update" /\ mine.link = NoLink
             /\ ~(before.current # NoLink /\ mine.attempted /\ mine.stopped))
  <2>1. Advance \/ Conflict
    BY <1>3 DEF RestoreVersion, Exchange
  <2>. QED BY <1>1, <2>1, Advancing, Conflicting DEF Turns
<1>. QED BY <1>2, <1>3

\* The service is started again, or it is reported.
LEMMA RestartServiceWay ==
  ASSUME Base, RestartService
  PROVE  Running /\ Moves /\ cleaning = TRUE /\ Head(todo) = "service" /\ (Goes \/ Reports)
<1>1. Running /\ cleaning = TRUE /\ Head(todo) = "service"
  BY DEF RestartService, Doing, Undoing, Running, Base, Typed
<1>2. Advance \/ Conflict
  BY DEF RestartService
<1>. QED BY <1>1, <1>2, Advancing, Conflicting DEF Turns, Reports

\* The release goes if the command published it; an update reports one it does not know.
LEMMA RemoveReleaseWay ==
  ASSUME Base, RemoveRelease
  PROVE  Running /\ Moves /\ cleaning = TRUE /\ Head(todo) = "release" /\ (Goes \/ Reports)
<1>1. Running /\ cleaning = TRUE /\ Head(todo) = "release"
  BY DEF RemoveRelease, Doing, Undoing, Running, Base, Typed
<1>2. Advance \/ Conflict
  BY DEF RemoveRelease
<1>. QED BY <1>1, <1>2, Advancing, Conflicting DEF Turns, Reports

\* The quarantined releases get their names back.
LEMMA RestoreReleasesWay ==
  ASSUME Base, RestoreReleases
  PROVE  Running /\ Moves /\ cleaning = TRUE /\ Head(todo) = "unquarantine" /\ Goes
<1>1. Running /\ cleaning = TRUE /\ Head(todo) = "unquarantine"
  BY DEF RestoreReleases, Doing, Undoing, Running, Base, Typed
<1>2. Advance
  BY DEF RestoreReleases
<1>. QED BY <1>1, <1>2, Advancing

\* A fault of a command begins its cleanup.
LEMMA FaultWay ==
  ASSUME Base, Fault
  PROVE  Running /\ Moves /\ cleaning = FALSE /\ Turns
<1>1. Running /\ cleaning = FALSE
  BY DEF Fault, Doing, Undoing, Running, Base, Typed
<1>2. Failing /\ torn \subseteq torn'
  BY DEF Fault, Breaks
<1>. QED BY <1>1, <1>2, FailingMoves DEF Turns, Reports

\* The release is there, its identity not taken: the cleanup begins.
LEMMA FaultPublishedWay ==
  ASSUME Base, FaultPublished
  PROVE  Running /\ Moves /\ cleaning = FALSE /\ Head(todo) = "publish" /\ Turns
<1>1. Running /\ cleaning = FALSE /\ Head(todo) = "publish"
  BY DEF FaultPublished, Doing, Undoing, Running, Base, Typed
<1>2. Failing /\ torn \subseteq torn'
  BY DEF FaultPublished, Breaks
<1>. QED BY <1>1, <1>2, FailingMoves DEF Turns, Reports

\* The link is switched, noted or not: the cleanup begins.
LEMMA FaultSwitchedWay ==
  ASSUME Base, FaultSwitched
  PROVE  Running /\ Moves /\ cleaning = FALSE /\ Head(todo) = "activate" /\ Turns
<1>1. Running /\ cleaning = FALSE /\ Head(todo) = "activate"
  BY DEF FaultSwitched, Doing, Undoing, Running, Base, Typed
<1>2. Failing /\ torn \subseteq torn'
  BY DEF FaultSwitched, Breaks
<1>. QED BY <1>1, <1>2, FailingMoves DEF Turns, Reports

\* The action file is written: the cleanup begins.
LEMMA FaultInActionWay ==
  ASSUME Base, FaultInAction
  PROVE  Running /\ Moves /\ cleaning = FALSE /\ Head(todo) \in {"pending", "done"} /\ Turns
<1>1. Running /\ cleaning = FALSE /\ Head(todo) \in {"pending", "done"}
  BY DEF FaultInAction, Doing, Undoing, Running, Base, Typed
<1>2. Failing /\ torn \subseteq torn'
  BY DEF FaultInAction, Breaks
<1>. QED BY <1>1, <1>2, FailingMoves DEF Turns, Reports

\* Uninstall has stopped the service unnoted: the cleanup begins.
LEMMA FaultStoppedWay ==
  ASSUME Base, FaultStopped
  PROVE  Running /\ Moves /\ cleaning = FALSE /\ Head(todo) = "bootout" /\ Turns
<1>1. Running /\ cleaning = FALSE /\ Head(todo) = "bootout"
  BY DEF FaultStopped, Doing, Undoing, Running, Base, Typed
<1>2. Failing /\ torn \subseteq torn'
  BY DEF FaultStopped, Breaks
<1>. QED BY <1>1, <1>2, FailingMoves DEF Turns, Reports

\* Uninstall has unlinked a file unnoted: the cleanup begins.
LEMMA FaultUnlinkedWay ==
  ASSUME Base, FaultUnlinked
  PROVE  Running /\ Moves /\ cleaning = FALSE /\ Head(todo) = "unlink" /\ Turns
<1>1. Running /\ cleaning = FALSE /\ Head(todo) = "unlink"
  BY DEF FaultUnlinked, Doing, Undoing, Running, Base, Typed
<1>2. Failing /\ torn \subseteq torn'
  BY DEF FaultUnlinked, Breaks
<1>. QED BY <1>1, <1>2, FailingMoves DEF Turns, Reports

\* Uninstall has removed the link unnoted: the cleanup begins.
LEMMA FaultDroppedWay ==
  ASSUME Base, FaultDropped
  PROVE  Running /\ Moves /\ cleaning = FALSE /\ Head(todo) = "drop" /\ Turns
<1>1. Running /\ cleaning = FALSE /\ Head(todo) = "drop"
  BY DEF FaultDropped, Doing, Undoing, Running, Base, Typed
<1>2. Failing /\ torn \subseteq torn'
  BY DEF FaultDropped, Breaks
<1>. QED BY <1>1, <1>2, FailingMoves DEF Turns, Reports

\* The hook configuration is exchanged: the cleanup begins.
LEMMA FaultExchangedWay ==
  ASSUME Base, FaultExchanged
  PROVE  Running /\ Moves /\ cleaning = FALSE /\ Head(todo) \in {"hooks", "unhook"} /\ Turns
<1>1. Running /\ cleaning = FALSE /\ Head(todo) \in {"hooks", "unhook"}
  BY DEF FaultExchanged, Doing, Undoing, Running, Base, Typed, Writing
<1>2. Failing /\ torn \subseteq torn'
  BY DEF FaultExchanged, Breaks
<1>. QED BY <1>1, <1>2, FailingMoves DEF Turns, Reports

\* A claimed configuration that is not put back is reported.
LEMMA FaultInClaimWay ==
  ASSUME Base, FaultInClaim
  PROVE  Running /\ Moves /\ cleaning = TRUE /\ Head(todo) = "rehook" /\ Reports
<1>1. Running /\ cleaning = TRUE /\ Head(todo) = "rehook"
  BY DEF FaultInClaim, Doing, Undoing, Running, Base, Typed, Writing
<1>2. Failing /\ torn \subseteq torn'
  BY DEF FaultInClaim, Breaks
<1>. QED BY <1>1, <1>2, FailingMoves DEF Turns, Reports

\* A fault of a cleanup is reported, and the next step of it follows.
LEMMA FaultInCleanupWay ==
  ASSUME Base, FaultInCleanup
  PROVE  Running /\ Moves /\ cleaning = TRUE /\ Reports
<1>1. Running /\ cleaning = TRUE
  BY DEF FaultInCleanup, Doing, Undoing, Running, Base, Typed
<1>2. Failing /\ torn \subseteq torn'
  BY DEF FaultInCleanup, Breaks
<1>. QED BY <1>1, <1>2, FailingMoves DEF Turns, Reports

-----------------------------------------------------------------------------
(* Types and places *)

\* The types grow with the counters.
LEMMA TypesGrow ==
  ASSUME links \in Nat, gens \in Nat, edits \in Nat, links' \in Nat, gens' \in Nat, edits' \in Nat,
         links <= links', gens <= gens', edits <= edits'
  PROVE  /\ Links \subseteq Links' /\ Hooks \subseteq Hooks' /\ Files \subseteq Files'
         /\ Memories \subseteq Memories' /\ Snapshots \subseteq Snapshots'
         /\ Writers \subseteq Writers'
         /\ \A k \in SUBSET (-1 .. edits) : k \subseteq -1 .. edits'
<1>1. Links \subseteq Links'
  BY DEF Links
<1>2. Hooks \subseteq Hooks'
  BY DEF Hooks
<1>3. Files \subseteq Files'
  BY DEF Files
<1>4. Memories \subseteq Memories'
  BY <1>1, <1>2 DEF Memories
<1>5. \A k \in SUBSET (-1 .. edits) : k \subseteq -1 .. edits'
  OBVIOUS
<1>6. Snapshots \subseteq Snapshots'
  BY <1>1, <1>2, <1>3, <1>5 DEF Snapshots
<1>7. Writers \subseteq Writers'
  BY <1>2 DEF Writers
<1>. QED BY <1>1, <1>2, <1>3, <1>4, <1>5, <1>6, <1>7

\* Types depend on the counters only.
LEMMA TypesStay ==
  ASSUME UNCHANGED <<links, gens, edits>>
  PROVE  /\ Links' = Links /\ Hooks' = Hooks /\ Files' = Files /\ Memories' = Memories
         /\ Snapshots' = Snapshots /\ Writers' = Writers
BY DEF Links, Hooks, Files, Memories, Snapshots, Writers

\* The constants of the model have their types.
LEMMA NonesTyped ==
  ASSUME Typed
  PROVE  /\ NoLink \in Links /\ NoHook \in Hooks /\ NoFiles \in Files /\ Fresh \in Memories
         /\ NoWriter \in Writers
<1>1. NoLink \in Links /\ NoHook \in Hooks /\ NoFiles \in Files
  BY DEF Typed, NoLink, NoHook, NoFiles, Links, Hooks, Files, None
<1>2. Fresh \in Memories /\ NoWriter \in Writers
  BY <1>1 DEF Typed, Fresh, NoWriter, Memories, Writers
<1>. QED BY <1>1, <1>2

\* What a step has to show.
LEMMA BaseStep ==
  ASSUME Base, Running, Moves,
         links' \in Nat, links <= links', gens' \in Nat, gens <= gens',
         current' \in Links', Linked(current'),
         releases' \subseteq Versions, quarantined' \subseteq Versions,
         releases' \cap quarantined' = {}, cmd # "uninstall" => quarantined' = {},
         files' \in Files', hook' \in Hooks, Absent(hook'), kept' \subseteq -1 .. edits,
         service' \in Versions \cup {None}, mine' \in Memories',
         writer' \in Writers, Absent(writer'.source), Absent(writer'.temp),
         \A h \in writer'.seen : Absent(h),
         Writing'
  PROVE  Base'
<1>1. /\ UNCHANGED <<cmd, target, login, before, scheduled, edits, relinked, disturbed, asked>>
      /\ OnTrack'
  BY DEF Moves, Steady
<1>2. {cleaning', errors', conflicted'} \subseteq BOOLEAN
  BY DEF Moves, Stays, Goes, Skips, Turns, Reports, Late, Ongoing, Base, Typed
<1>3. Typed'
  <2>1. edits' = edits /\ edits \in Nat /\ links \in Nat /\ gens \in Nat
    BY <1>1 DEF Base, Typed
  <2>2. /\ Hooks \subseteq Hooks' /\ Writers \subseteq Writers' /\ Snapshots \subseteq Snapshots'
    BY <2>1, TypesGrow
  <2>3. before' \in Snapshots' /\ hook' \in Hooks' /\ writer' \in Writers'
    BY <1>1, <2>2 DEF Base, Typed
  <2>4. scheduled' \in 0 .. gens'
    BY <1>1, <2>1 DEF Base, Typed
  <2>. QED BY <1>1, <1>2, <2>1, <2>3, <2>4 DEF Base, Typed
<1>4. cmd' # "none" /\ errors' => IF cleaning' THEN conflicted' ELSE todo' = <<>>
  <2>1. errors = FALSE \/ (cleaning = TRUE /\ conflicted = TRUE)
    BY DEF Base, Typed, Shared, Running, Names
  <2>2. CASE Stays \/ Goes \/ Skips
    BY <2>1, <2>2 DEF Stays, Goes, Skips, Ongoing
  <2>3. CASE Turns
    BY <2>1, <2>3 DEF Turns
  <2>4. CASE Reports
    BY <2>4 DEF Reports
  <2>5. CASE Late
    BY <2>5 DEF Late
  <2>. QED BY <2>2, <2>3, <2>4, <2>5 DEF Moves
<1>5. Shared'
  BY <1>1, <1>4 DEF Base, Shared, Linked, Absent
<1>. QED BY <1>1, <1>3, <1>5 DEF Base

\* The writer that does nothing.
LEMMA IdleWriter ==
  ASSUME writer' = NoWriter
  PROVE  /\ Absent(writer'.source) /\ Absent(writer'.temp) /\ (\A h \in writer'.seen : Absent(h))
         /\ Writing'
<1>1. /\ writer'.at = "idle" /\ writer'.source = NoHook /\ writer'.temp = NoHook
      /\ writer'.seen = {}
  BY DEF NoWriter
<1>. QED BY <1>1 DEF Absent, Writing

\* Away from the hooks the writer does nothing.
HookSteps == {"hooks", "unhook", "rehook", "clirehook"}

\* Outside the steps of the hooks their writer rests.
LEMMA WriterRests ==
  ASSUME Base, Running, Head(todo) \notin HookSteps
  PROVE  writer = NoWriter
BY DEF Base, Typed, Writing, Writers, HookSteps

\* A step that leaves links, releases and hooks alone.
LEMMA QuietBase ==
  ASSUME Base, Running, Moves, UNCHANGED <<current, releases, quarantined, hook, links>>,
         writer' = NoWriter, gens' \in Nat, gens <= gens',
         files' \in Files', kept' \subseteq -1 .. edits, service' \in Versions \cup {None},
         mine' \in Memories'
  PROVE  Base'
<1>1. Writing' /\ Absent(writer'.source) /\ Absent(writer'.temp) /\ \A h \in writer'.seen : Absent(h)
  BY IdleWriter
<1>2. writer' \in Writers
  BY NonesTyped DEF Base
<1>3. current \in Links'
  BY DEF Base, Typed, Links
<1>4. links \in Nat /\ links' = links
  BY DEF Base, Typed
<1>. QED BY <1>1, <1>2, <1>3, <1>4, BaseStep DEF Base, Typed, Shared

\* What a step writes are managed files.
LEMMA WrittenTyped ==
  ASSUME Base, NEW step
  PROVE  Written(step) \in Files
<1>1. NewConfig \in [version : Versions \cup {None}, login : BOOLEAN] /\ NewAgent \in {"absent", "login", "session"}
  BY DEF NewConfig, NewAgent, Base, Typed
<1>2. NewState \in [current : Versions \cup {None}, previous : Versions \cup {None}]
  <2>1. Previous \in Versions \cup {None}
    BY DEF Previous, Base, Typed, Files, Snapshots, Links
  <2>. QED BY <2>1 DEF NewState, Base, Typed
<1>3. files \in Files
  BY DEF Base, Typed
<1>4. CASE step = "config"
  BY <1>1, <1>3, <1>4 DEF Files, Written
<1>5. CASE step = "launcher"
  BY <1>3, <1>5 DEF Files, Written
<1>6. CASE step = "agent"
  BY <1>1, <1>3, <1>6 DEF Files, Written
<1>7. CASE step = "state"
  BY <1>2, <1>3, <1>7 DEF Files, Written
<1>. QED BY <1>3, <1>4, <1>5, <1>6, <1>7 DEF Written

\* WriteFile, StartService, Smoke, Bootout, the removal and the restoring of files.
LEMMA WriteFileBase == ASSUME Base, WriteFile PROVE Base'
<1>1. Running /\ Moves /\ Head(todo) \in {"config", "launcher", "agent", "state"} /\ writer = NoWriter
  BY WriteFileWay, WriterRests DEF HookSteps
<1>2. UNCHANGED <<current, releases, quarantined, hook, links, gens, edits, kept, service, mine, writer>>
  BY DEF WriteFile, Advance, Steady
<1>3. files' \in Files
  BY WrittenTyped DEF WriteFile
<1>. QED BY <1>1, <1>2, <1>3, TypesStay, QuietBase DEF Base, Typed

\* A new action file is of the next generation.
LEMMA NewActionTyped ==
  ASSUME Base, NewAction, UNCHANGED <<links, edits>>
  PROVE  /\ files' \in Files' /\ Memories \subseteq Memories' /\ gens' \in Nat /\ gens <= gens'
         /\ gens + 1 \in 0 .. gens' /\ gens + 1 > scheduled
<1>1. gens' = gens + 1 /\ files' = [files EXCEPT !.action = [gen |-> gens + 1, login |-> login]]
  BY DEF NewAction
<1>2. Files \subseteq Files' /\ Memories \subseteq Memories' /\ gens' \in Nat /\ gens <= gens'
  BY <1>1, TypesGrow DEF Base, Typed
<1>3. files' \in Files'
  <2>1. files \in Files' /\ [gen |-> gens + 1, login |-> login] \in [gen : 0 .. gens', login : BOOLEAN]
    BY <1>1, <1>2 DEF Base, Typed
  <2>. QED BY <1>1, <2>1 DEF Files
<1>4. gens + 1 \in 0 .. gens' /\ gens + 1 > scheduled
  BY <1>1 DEF Base, Typed
<1>. QED BY <1>2, <1>3, <1>4

\* The action file gets a new generation, within the type.
LEMMA WriteActionBase == ASSUME Base, WriteAction PROVE Base'
<1>1. Running /\ Moves /\ writer = NoWriter
  BY WriteActionWay, WriterRests DEF HookSteps
<1>2. /\ UNCHANGED <<current, releases, quarantined, hook, links, edits, kept, service, writer>>
      /\ NewAction
      /\ mine' = [mine EXCEPT !.gen = gens + 1, !.pending = Doing("pending") \/ mine.pending]
  BY DEF WriteAction, Advance, Steady
<1>3. mine' \in Memories'
  <2>1. mine \in Memories' /\ gens + 1 \in 0 .. gens' /\ (Doing("pending") \/ mine.pending) \in BOOLEAN
    BY <1>2, NewActionTyped DEF Base, Typed
  <2>. QED BY <1>2, <2>1 DEF Memories
<1>. QED BY <1>1, <1>2, <1>3, NewActionTyped, QuietBase DEF Base, Typed

\* So does the file that a failed step has written.
LEMMA FaultInActionBase == ASSUME Base, FaultInAction PROVE Base'
<1>1. Running /\ Moves /\ writer = NoWriter
  BY FaultInActionWay, WriterRests DEF HookSteps
<1>2. /\ UNCHANGED <<current, releases, quarantined, hook, links, edits, kept, service, writer>>
      /\ NewAction
      /\ mine' \in {mine, [mine EXCEPT !.gen = gens + 1], [mine EXCEPT !.spared = "action"]}
  BY <1>1 DEF FaultInAction, Moves, Steady
<1>3. mine' \in Memories'
  <2>1. mine \in Memories' /\ gens + 1 \in 0 .. gens'
    BY <1>2, NewActionTyped DEF Base, Typed
  <2>. QED BY <1>2, <2>1 DEF Memories
<1>. QED BY <1>1, <1>2, <1>3, NewActionTyped, QuietBase DEF Base, Typed

\* Starting the service and running the hooks keep the base of the invariant.
LEMMA ServiceBase == ASSUME Base, StartService \/ RestartService \/ Smoke \/ FaultInCleanup PROVE Base'
<1>1. CASE StartService
  <2>1. Running /\ Moves /\ writer = NoWriter
    BY <1>1, StartServiceWay, WriterRests DEF HookSteps
  <2>2. UNCHANGED <<current, releases, quarantined, hook, links, gens, edits, kept, mine, writer, files>>
    BY <1>1, <2>1 DEF StartService, Moves, Steady
  <2>3. service' \in Versions \cup {None}
    BY <1>1 DEF StartService, Base, Typed
  <2>. QED BY <2>1, <2>2, <2>3, TypesStay, QuietBase DEF Base, Typed
<1>2. CASE RestartService
  <2>1. Running /\ Moves /\ writer = NoWriter
    BY <1>2, RestartServiceWay, WriterRests DEF HookSteps
  <2>2. UNCHANGED <<current, releases, quarantined, hook, links, gens, edits, kept, mine, writer, files>>
    BY <1>2, <2>1 DEF RestartService, Moves, Steady
  <2>3. Restarted \in Versions \cup {None}
    BY DEF Restarted, Base, Typed, Snapshots, Links, Files
  <2>4. service' \in Versions \cup {None}
    BY <1>2, <2>3 DEF RestartService, Base, Typed
  <2>. QED BY <2>1, <2>2, <2>4, TypesStay, QuietBase DEF Base, Typed
<1>3. CASE Smoke
  <2>1. Running /\ Moves /\ writer = NoWriter
    BY <1>3, SmokeWay, WriterRests DEF HookSteps
  <2>2. UNCHANGED <<disk, links, gens, edits, mine, writer>>
    BY <1>3, <2>1 DEF Smoke, Moves, Steady
  <2>. QED BY <2>1, <2>2, TypesStay, QuietBase DEF Base, Typed, disk
<1>4. CASE FaultInCleanup
  <2>1. Running /\ Moves /\ writer = NoWriter
    BY <1>4, FaultInCleanupWay DEF FaultInCleanup, Base, Writing
  <2>2. UNCHANGED <<disk, links, gens, edits, mine, writer>>
    BY <1>4, <2>1 DEF FaultInCleanup, Moves, Steady
  <2>. QED BY <2>1, <2>2, TypesStay, QuietBase DEF Base, Typed, disk
<1>. QED BY <1>1, <1>2, <1>3, <1>4

\* So does stopping the service.
LEMMA BootoutBase == ASSUME Base, Bootout \/ FaultStopped PROVE Base'
<1>1. Running /\ Moves /\ writer = NoWriter
  BY BootoutWay, FaultStoppedWay, WriterRests DEF HookSteps
<1>2. /\ UNCHANGED <<current, releases, quarantined, hook, links, gens, edits, kept, writer, files>>
      /\ service' \in {service, None}
      /\ mine' = mine \/ mine' = [mine EXCEPT !.stopped = service # None]
  BY <1>1 DEF Bootout, FaultStopped, Moves, Steady
<1>3. mine' \in Memories
  BY <1>2 DEF Base, Typed, Memories
<1>. QED BY <1>1, <1>2, <1>3, TypesStay, QuietBase DEF Base, Typed

\* A removed file is one that was never installed.
LEMMA UnlinkTyped ==
  ASSUME Base, NEW i \in Present, Unlink(i)
  PROVE  files' \in Files
<1>1. files \in Files /\ NoFiles \in Files
  BY NonesTyped DEF Base, Typed
<1>2. FileOrder[i] \in {"agent", "launcher", "config", "state", "action"}
  BY DEF Present, FileOrder
<1>3. ASSUME NEW f \in {"agent", "launcher", "config", "state", "action"},
             files' = [files EXCEPT ![f] = NoFiles[f]]
      PROVE  files' \in Files
  BY <1>1, <1>3 DEF Files
<1>. QED BY <1>2, <1>3 DEF Unlink

\* So does the removal of a file.
LEMMA UnlinkFileBase == ASSUME Base, UnlinkFile \/ FaultUnlinked PROVE Base'
<1>1. Running /\ Moves /\ writer = NoWriter
  BY UnlinkFileWay, FaultUnlinkedWay, WriterRests DEF HookSteps
<1>2. UNCHANGED <<current, releases, quarantined, hook, links, gens, edits, kept, service, writer>>
  BY <1>1 DEF UnlinkFile, FaultUnlinked, Moves, Steady
<1>3. files' \in Files
  BY UnlinkTyped DEF UnlinkFile, FaultUnlinked, Base, Typed
<1>4. mine' \in Memories
  <2>1. mine' = mine \/ \E i \in 1 .. 5 : mine' = [mine EXCEPT !.spared = FileOrder[i]]
    BY DEF UnlinkFile, FaultUnlinked, Present, FileOrder
  <2>2. \A i \in 1 .. 5 : FileOrder[i] \in {"agent", "launcher", "config", "state", "action"}
    BY DEF FileOrder
  <2>. QED BY <2>1, <2>2 DEF Base, Typed, Memories
<1>. QED BY <1>1, <1>2, <1>3, <1>4, TypesStay, QuietBase DEF Base, Typed

\* So do putting back a file and withdrawing the action.
LEMMA RestoreFileBase == ASSUME Base, RestoreFile \/ WithdrawAction PROVE Base'
<1>1. CASE RestoreFile
  <2>1. Running /\ Moves /\ writer = NoWriter
    BY <1>1, RestoreFileWay, WriterRests DEF HookSteps
  <2>2. UNCHANGED <<current, releases, quarantined, hook, links, gens, edits, kept, service, writer, mine>>
    BY <1>1, <2>1 DEF RestoreFile, Moves, Steady
  <2>3. files' \in Files
    <3>1. files \in Files /\ before.files \in Files
      BY DEF Base, Typed, Snapshots
    <3>2. files' = files \/ \E f \in DOMAIN files : files' = [files EXCEPT ![f] = before.files[f]]
      BY <1>1 DEF RestoreFile
    <3>. QED BY <3>1, <3>2 DEF Files
  <2>. QED BY <2>1, <2>2, <2>3, TypesStay, QuietBase DEF Base, Typed
<1>2. CASE WithdrawAction
  <2>1. Running /\ Moves /\ writer = NoWriter
    BY <1>2, WithdrawActionWay, WriterRests DEF HookSteps
  <2>2. UNCHANGED <<current, releases, quarantined, hook, links, gens, edits, kept, service, writer, mine>>
    BY <1>2, <2>1 DEF WithdrawAction, Moves, Steady
  <2>3. files' \in Files
    <3>1. files \in Files /\ before.files \in Files
      BY DEF Base, Typed, Snapshots
    <3>2. files' = files \/ files' = [files EXCEPT !.action = before.files.action]
      BY <1>2 DEF WithdrawAction
    <3>. QED BY <3>1, <3>2 DEF Files
  <2>. QED BY <2>1, <2>2, <2>3, TypesStay, QuietBase DEF Base, Typed
<1>. QED BY <1>1, <1>2

\* So does the removal of a backup.
LEMMA ForgetBackupBase == ASSUME Base, ForgetBackup PROVE Base'
<1>1. Running /\ Moves /\ writer = NoWriter
  BY ForgetBackupWay, WriterRests DEF HookSteps
<1>2. /\ UNCHANGED <<current, releases, quarantined, hook, links, gens, edits, service, writer, mine, files>>
      /\ kept' \in {kept, (kept \ {mine.backup}) \cup before.kept}
  BY <1>1 DEF ForgetBackup, Moves, Steady
<1>3. kept' \subseteq -1 .. edits
  BY <1>2 DEF Base, Typed, Snapshots
<1>. QED BY <1>1, <1>2, <1>3, TypesStay, QuietBase DEF Base, Typed

\* A failing step, a first run in a write of its own.
LEMMA FaultBase == ASSUME Base, Fault PROVE Base'
<1>1. Running /\ Moves /\ cleaning = FALSE
  BY FaultWay
<1>2. /\ UNCHANGED <<current, releases, quarantined, hook, links, gens, edits, kept>>
      /\ writer' = NoWriter /\ service' \in {service, None, target}
  BY <1>1 DEF Fault, Moves, Steady
<1>3. files' \in Files
  BY WrittenTyped DEF Fault, Base, Typed
<1>4. mine' \in Memories
  <2>1. CASE cmd = "first" /\ ~Doing("service")
    <3>1. Head(todo) \in {"config", "hooks", "agent", "done"}
      BY <1>1, <2>1, GoesOnHead, Heads DEF Base, Running, Doing
    <3>2. mine' = [mine EXCEPT !.spared = IF Doing("done") THEN "action" ELSE Head(todo)]
      BY <2>1 DEF Fault
    <3>3. (IF Doing("done") THEN "action" ELSE Head(todo)) \in {"none", "config", "hooks", "agent", "action"}
      BY <1>1, <2>1, <3>1 DEF Doing, Running, Names
    <3>. QED BY <3>2, <3>3 DEF Base, Typed, Memories
  <2>2. CASE ~(cmd = "first" /\ ~Doing("service"))
    <3>1. hook \in Hooks
      BY DEF Base, Typed
    <3>2. \/ mine' = mine \/ mine' = [mine EXCEPT !.hook = hook, !.noted = TRUE]
          \/ mine' = [mine EXCEPT !.attempted = @ \/ Doing("activate")]
      BY <2>2 DEF Fault, NotingFailure, Noting
    <3>. QED BY <3>1, <3>2 DEF Base, Typed, Memories
  <2>. QED BY <2>1, <2>2
<1>. QED BY <1>1, <1>2, <1>3, <1>4, TypesStay, QuietBase DEF Base, Typed

\* So does a failure of the last step.
LEMMA EndBase == ASSUME Base, FaultAtTheEnd PROVE Base'
<1>1. Running /\ Moves /\ Head(todo) = "done"
  BY EndMoves DEF Late, FaultAtTheEnd, Doing, Running, Names
<1>2. writer = NoWriter
  BY <1>1, WriterRests DEF HookSteps
<1>3. UNCHANGED <<current, releases, quarantined, hook, kept, service, links, edits, mine, writer>>
  BY <1>1 DEF FaultAtTheEnd, Moves, Steady
<1>4. CASE NewAction
  <2>1. mine \in Memories'
    BY <1>3, <1>4, NewActionTyped DEF Base, Typed
  <2>. QED BY <1>1, <1>2, <1>3, <1>4, <2>1, NewActionTyped, QuietBase DEF Base, Typed
<1>5. CASE UNCHANGED <<files, gens>>
  BY <1>1, <1>2, <1>3, <1>5, TypesStay, QuietBase DEF Base, Typed
<1>. QED BY <1>4, <1>5 DEF FaultAtTheEnd

\* The steps of the link and the releases: the writer rests.
LEMMA RestingBase ==
  ASSUME Base, Running, Moves, writer' = NoWriter, links' \in Nat, links <= links',
         current' \in Links', Linked(current'),
         releases' \subseteq Versions, quarantined' \subseteq Versions,
         releases' \cap quarantined' = {}, cmd # "uninstall" => quarantined' = {},
         mine' \in Memories', UNCHANGED <<files, hook, kept, service, gens>>
  PROVE  Base'
<1>1. Writing' /\ Absent(writer'.source) /\ Absent(writer'.temp) /\ \A h \in writer'.seen : Absent(h)
  BY IdleWriter
<1>2. writer' \in Writers
  BY NonesTyped DEF Base
<1>3. Files \subseteq Files' /\ gens' \in Nat /\ gens <= gens'
  BY TypesGrow DEF Base, Typed, Moves, Steady
<1>. QED BY <1>1, <1>2, <1>3, BaseStep DEF Base, Typed, Shared

\* Releases are moved between installed and quarantined, and are in one of them at most.
LEMMA ReleasesBase ==
  ASSUME Base, \/ Publish \/ Quarantine \/ DeleteQuarantined \/ RemoveRelease \/ RestoreReleases
               \/ FaultPublished
  PROVE  Base'
<1>1. Running /\ Moves /\ writer = NoWriter
  BY PublishWay, QuarantineWay, DeleteQuarantinedWay, RemoveReleaseWay, RestoreReleasesWay,
     FaultPublishedWay, WriterRests DEF HookSteps
<1>2. /\ UNCHANGED <<current, files, hook, kept, service, gens, links, edits>> /\ writer' = writer
      /\ mine' = mine \/ mine' = [mine EXCEPT !.release = target \notin releases]
  BY <1>1 DEF Publish, Quarantine, DeleteQuarantined, RemoveRelease, RestoreReleases, FaultPublished,
              Moves, Steady
<1>3. mine' \in Memories
  <2>1. (target \notin releases) \in BOOLEAN
    OBVIOUS
  <2>. QED BY <1>2, <2>1 DEF Base, Typed, Memories
<1>4. /\ releases' \subseteq Versions /\ quarantined' \subseteq Versions
      /\ releases' \cap quarantined' = {} /\ (cmd # "uninstall" => quarantined' = {})
  <2>. USE DEF Base, Typed, Shared
  <2>1. CASE Publish
    <3>1. cmd \in {"update", "install"}
      BY <2>1, PublishWay, GoesOnHead, Heads DEF Running, Names
    <3>. QED BY <2>1, <3>1 DEF Publish
  <2>2. CASE Quarantine
    <3>1. cmd = "uninstall"
      BY <2>2, QuarantineWay, GoesOnHead, Heads DEF Running, Names
    <3>. QED BY <2>2, <3>1 DEF Quarantine
  <2>3. CASE DeleteQuarantined
    BY <2>3 DEF DeleteQuarantined
  <2>4. CASE RemoveRelease
    BY <2>4 DEF RemoveRelease
  <2>5. CASE RestoreReleases
    <3>1. cmd = "uninstall"
      BY <2>5, RestoreReleasesWay, GoesOnHead, Heads DEF Running, Names
    <3>. QED BY <2>5, <3>1 DEF RestoreReleases, Snapshots
  <2>6. CASE FaultPublished
    <3>1. cmd \in {"update", "install"}
      BY <2>6, FaultPublishedWay, GoesOnHead, Heads DEF Running, Names
    <3>. QED BY <2>6, <3>1 DEF FaultPublished
  <2>. QED BY <2>1, <2>2, <2>3, <2>4, <2>5, <2>6
<1>5. Links' = Links /\ Memories' = Memories
  BY <1>2, TypesStay
<1>. QED BY <1>1, <1>2, <1>3, <1>4, <1>5, RestingBase DEF Base, Typed, Shared

\* The link goes elsewhere, goes away or stays.
LEMMA Linking ==
  ASSUME Base, links' = links \/ links' = links + 1,
         \/ current' = current \/ current' = NoLink
         \/ \E v \in releases : current' = [to |-> v, id |-> links + 1] /\ links' = links + 1,
         UNCHANGED <<gens, edits>>
  PROVE  /\ links' \in Nat /\ links <= links' /\ current' \in Links' /\ Linked(current')
         /\ Memories \subseteq Memories'
<1>1. links \in Nat /\ current \in Links /\ Linked(current) /\ NoLink \in Links
  BY NonesTyped DEF Base, Typed, Shared
<1>2. links' \in Nat /\ links <= links' /\ Links \subseteq Links' /\ Memories \subseteq Memories'
  BY TypesGrow DEF Base, Typed
<1>3. CASE current' = current \/ current' = NoLink
  BY <1>1, <1>2, <1>3 DEF Linked
<1>4. ASSUME NEW v \in releases, current' = [to |-> v, id |-> links + 1], links' = links + 1
      PROVE  current' \in Links' /\ Linked(current')
  <2>1. v \in Versions /\ v # None
    BY VersionsAssumption DEF Base, Typed, None
  <2>. QED BY <1>1, <1>2, <1>4, <2>1 DEF Links, Linked
<1>. QED BY <1>2, <1>3, <1>4

\* The exchange of the link makes one of a new identity.
LEMMA ActivateBase == ASSUME Base, Activate PROVE Base'
<1>1. Running /\ Moves /\ writer = NoWriter
  BY ActivateWay, WriterRests DEF HookSteps
<1>2. /\ UNCHANGED <<releases, quarantined, files, hook, kept, service, gens, edits>> /\ writer' = writer
      /\ mine' = [mine EXCEPT !.attempted = TRUE, !.link = IF cleaning' THEN NoLink ELSE current']
      /\ \/ current' = current /\ links' = links
         \/ target \in releases /\ current' = [to |-> target, id |-> links + 1] /\ links' = links + 1
  BY <1>1 DEF Activate, Exchange, Switch, Moves, Steady
<1>3. /\ links' \in Nat /\ links <= links' /\ current' \in Links' /\ Linked(current')
      /\ Memories \subseteq Memories'
  BY <1>2, Linking
<1>4. mine' \in Memories'
  <2>1. mine \in Memories' /\ NoLink \in Links'
    BY <1>3, NonesTyped, TypesGrow, <1>2 DEF Base, Typed
  <2>. QED BY <1>2, <1>3, <2>1 DEF Memories
<1>. QED BY <1>1, <1>2, <1>3, <1>4, RestingBase DEF Base, Typed, Shared

\* So does a switch that fails after it.
LEMMA FaultSwitchedBase == ASSUME Base, FaultSwitched PROVE Base'
<1>1. Running /\ Moves /\ writer = NoWriter
  BY FaultSwitchedWay, WriterRests DEF HookSteps
<1>2. /\ UNCHANGED <<releases, quarantined, files, hook, kept, service, gens, edits>> /\ writer' = writer
      /\ \E l \in {NoLink, current'} : mine' = [mine EXCEPT !.attempted = TRUE, !.link = l]
      /\ target \in releases /\ current' = [to |-> target, id |-> links + 1] /\ links' = links + 1
  BY <1>1 DEF FaultSwitched, Switch, Moves, Steady
<1>3. /\ links' \in Nat /\ links <= links' /\ current' \in Links' /\ Linked(current')
      /\ Memories \subseteq Memories'
  BY <1>2, Linking
<1>4. mine' \in Memories'
  <2>1. mine \in Memories' /\ NoLink \in Links'
    BY <1>3, NonesTyped, TypesGrow, <1>2 DEF Base, Typed
  <2>2. PICK l \in {NoLink, current'} : mine' = [mine EXCEPT !.attempted = TRUE, !.link = l]
    BY <1>2
  <2>3. l \in Links'
    BY <1>3, <2>1
  <2>. QED BY <2>1, <2>2, <2>3 DEF Memories
<1>. QED BY <1>1, <1>2, <1>3, <1>4, RestingBase DEF Base, Typed, Shared

\* The removal of the link leaves none.
LEMMA DropCurrentBase == ASSUME Base, DropCurrent \/ FaultDropped PROVE Base'
<1>1. Running /\ Moves /\ writer = NoWriter
  BY DropCurrentWay, FaultDroppedWay, WriterRests DEF HookSteps
<1>2. /\ UNCHANGED <<releases, quarantined, files, hook, kept, service, gens, edits, links>> /\ writer' = writer
      /\ mine' = mine \/ mine' = [mine EXCEPT !.dropped = TRUE]
      /\ current' = current \/ current' = NoLink
  BY <1>1 DEF DropCurrent, FaultDropped, Moves, Steady
<1>3. /\ links' \in Nat /\ links <= links' /\ current' \in Links' /\ Linked(current')
      /\ Memories \subseteq Memories'
  BY <1>2, Linking
<1>4. mine' \in Memories
  BY <1>2 DEF Base, Typed, Memories
<1>. QED BY <1>1, <1>2, <1>3, <1>4, RestingBase DEF Base, Typed, Shared

\* The link put back is one of a new identity, or none.
LEMMA RestoreVersionBase == ASSUME Base, RestoreVersion PROVE Base'
<1>1. Running /\ Moves /\ writer = NoWriter
  BY RestoreVersionWay, WriterRests DEF HookSteps
<1>2. UNCHANGED <<releases, quarantined, files, hook, kept, service, gens, edits, mine, writer>>
  BY <1>1 DEF RestoreVersion, Moves, Steady
<1>3. \/ (current' = current \/ current' = NoLink) /\ links' = links
      \/ \E v \in releases : current' = [to |-> v, id |-> links + 1] /\ links' = links + 1
  BY DEF RestoreVersion, Exchange, Switch
<1>4. /\ links' \in Nat /\ links <= links' /\ current' \in Links' /\ Linked(current')
      /\ Memories \subseteq Memories'
  BY <1>2, <1>3, Linking
<1>. QED BY <1>1, <1>2, <1>4, RestingBase DEF Base, Typed, Shared

\* What the writer merges is a configuration, and not the absence of one.
LEMMA MergedTyped ==
  ASSUME Base
  PROVE  Merged \in Hooks /\ Merged # NoHook /\ Absent(Merged)
         /\ (Head(todo) = "hooks" <=> Merged.ours)
         /\ (writer.source # NoHook => Merged.edit = writer.source.edit)
         /\ (writer.source = NoHook => Merged.edit = 0)
<1>1. writer.source \in Hooks /\ Absent(writer.source) /\ edits \in Nat
  BY DEF Base, Typed, Writers, Shared
<1>2. Merged.ours = Wanted /\ Wanted \in BOOLEAN
      /\ Merged.edit = (IF writer.source = NoHook THEN 0 ELSE writer.source.edit)
  BY DEF Merged, Wanted
<1>3. Merged.edit \in 0 .. edits
  BY <1>1, <1>2 DEF Absent, Hooks
<1>4. Merged \in Hooks
  BY <1>2, <1>3 DEF Merged, Hooks
<1>5. NoHook.edit = -1
  BY DEF NoHook
<1>6. Merged # NoHook /\ Absent(Merged)
  BY <1>1, <1>3, <1>5 DEF Absent
<1>7. Head(todo) = "hooks" <=> Merged.ours
  BY <1>2 DEF Wanted
<1>8. /\ writer.source # NoHook => Merged.edit = writer.source.edit
      /\ writer.source = NoHook => Merged.edit = 0
  BY <1>2
<1>. QED BY <1>4, <1>6, <1>7, <1>8

\* The steps of the hooks.
LEMMA HookBase ==
  ASSUME Base, Running, Moves, UNCHANGED <<current, releases, quarantined, files, service, links, gens>>,
         hook' \in Hooks, Absent(hook'), kept' \subseteq -1 .. edits, mine' \in Memories,
         writer' = NoWriter
         \/ /\ writer' \in Writers /\ Absent(writer'.source) /\ Absent(writer'.temp)
            /\ (\A h \in writer'.seen : Absent(h)) /\ Writing'
  PROVE  Base'
<1>1. /\ Writing' /\ Absent(writer'.source) /\ Absent(writer'.temp)
      /\ (\A h \in writer'.seen : Absent(h)) /\ writer' \in Writers
  BY IdleWriter, NonesTyped DEF Base
<1>2. Links' = Links /\ Files' = Files /\ Memories' = Memories
  BY TypesStay DEF Moves, Steady
<1>3. links' \in Nat /\ links <= links' /\ gens' \in Nat /\ gens <= gens'
  BY DEF Base, Typed
<1>. QED BY <1>1, <1>2, <1>3, BaseStep DEF Base, Typed, Shared

\* What a step may copy.
LEMMA KeepingTyped ==
  ASSUME Base, NEW h \in Hooks, NEW g \in Hooks
  PROVE  /\ Keeping({h.edit, g.edit}) \subseteq -1 .. edits /\ Keeping({h.edit}) \subseteq -1 .. edits
         /\ Noting(h) \in Memories /\ NotingFailure(h) \in Memories
<1>1. h.edit \in -1 .. edits /\ g.edit \in -1 .. edits
  BY DEF Hooks
<1>2. [mine EXCEPT !.hook = h, !.noted = TRUE] \in Memories
  BY DEF Base, Typed, Memories
<1>. QED BY <1>1, <1>2 DEF Keeping, Noting, NotingFailure, Base, Typed

\* What the writer reads is a configuration.
LEMMA ReadHookBase == ASSUME Base, ReadHook PROVE Base'
<1>1. /\ Running /\ Moves /\ cleaning = FALSE /\ Head(todo) \in {"hooks", "unhook"}
  BY ReadHookWay
<1>2. writer = NoWriter
  BY DEF ReadHook, Base, Writing
<1>3. UNCHANGED <<current, releases, quarantined, files, service, links, gens, hook, kept>>
  BY DEF ReadHook, disk
<1>4. hook \in Hooks /\ Absent(hook) /\ NoHook \in Hooks /\ kept \subseteq -1 .. edits
  BY NonesTyped DEF Base, Typed, Shared
<1>5. CASE writer' = writer /\ mine' = Noting(hook)
  BY <1>1, <1>2, <1>3, <1>4, <1>5, HookBase, KeepingTyped
<1>6. ASSUME NEW l \in {"exchange", "plain"}, writer' = [writer EXCEPT !.at = l, !.source = hook],
             mine' = mine, Repeat, l = "plain" => cmd = "first" /\ hook.ours
      PROVE  Base'
  <2>1. /\ writer'.at = l /\ writer'.source = hook /\ writer'.temp = NoHook /\ writer'.seen = {}
        /\ writer' \in Writers
    BY <1>2, <1>4, <1>6 DEF NoWriter, Writers
  <2>2. Absent(NoHook)
    BY DEF Absent
  <2>3. UNCHANGED <<cmd, cleaning, todo>>
    BY <1>6 DEF Repeat, Steady
  <2>4. Writing'
    BY <1>1, <1>6, <2>1, <2>3 DEF Writing, Running, Names
  <2>5. mine' \in Memories
    BY <1>6 DEF Base, Typed
  <2>. QED BY <1>1, <1>3, <1>4, <2>1, <2>2, <2>4, <2>5, HookBase
<1>. QED BY <1>5, <1>6 DEF ReadHook

\* A writer that turns back rests, and its copies are edits made.
LEMMA RefusingBase == ASSUME Base, RefuseHook \/ YieldHook PROVE Base'
<1>1. Running /\ Moves
  BY RefuseHookWay, YieldHookWay
<1>2. /\ UNCHANGED <<current, releases, quarantined, files, service, links, gens, hook>>
      /\ writer' = NoWriter /\ mine' = NotingFailure(hook)
      /\ kept' \in {Keeping({Merged.edit}), Keeping({writer.temp.edit})}
  BY DEF RefuseHook, YieldHook
<1>3. hook \in Hooks /\ Absent(hook) /\ writer.temp \in Hooks
  BY DEF Base, Typed, Shared, Writers
<1>4. kept' \subseteq -1 .. edits /\ mine' \in Memories
  BY <1>2, <1>3, KeepingTyped, MergedTyped
<1>. QED BY <1>1, <1>2, <1>3, <1>4, HookBase

\* The exchange displaces a configuration.
LEMMA ExchangeHookBase == ASSUME Base, ExchangeHook PROVE Base'
<1>1. Running /\ Moves /\ cleaning = FALSE /\ Head(todo) \in {"hooks", "unhook"}
  BY ExchangeHookWay
<1>2. /\ UNCHANGED <<current, releases, quarantined, files, service, links, gens, kept, mine>>
      /\ hook' = Merged /\ writer' = [writer EXCEPT !.at = "exchanged", !.temp = hook]
      /\ UNCHANGED <<cmd, cleaning, todo>>
  BY DEF ExchangeHook, Repeat, Steady
<1>3. writer \in Writers /\ hook \in Hooks /\ Absent(hook)
  BY DEF Base, Typed, Shared
<1>4. /\ writer'.at = "exchanged" /\ writer'.source = writer.source /\ writer'.temp = hook
      /\ writer'.seen = writer.seen /\ writer' \in Writers
  BY <1>2, <1>3 DEF Writers
<1>5. Writing'
  BY <1>1, <1>2, <1>4 DEF Writing, Running, Names
<1>6. kept' \subseteq -1 .. edits /\ mine' \in Memories
  BY <1>2 DEF Base, Typed
<1>7. Absent(writer.source) /\ \A h \in writer.seen : Absent(h)
  BY DEF Base, Shared
<1>. QED BY <1>1, <1>2, <1>3, <1>4, <1>5, <1>6, <1>7, HookBase, MergedTyped

\* What is committed is a configuration.
LEMMA CommitHookBase == ASSUME Base, CommitHook PROVE Base'
<1>1. Running /\ Moves /\ cleaning = FALSE /\ Head(todo) \in {"hooks", "unhook"}
  BY CommitHookWay
<1>2. /\ UNCHANGED <<current, releases, quarantined, files, service, links, gens, hook>>
      /\ kept' = Keeping({writer.temp.edit})
      /\ mine' = [mine EXCEPT !.hook = Merged, !.noted = cmd \notin Noters, !.backup = writer.temp.edit]
  BY DEF CommitHook
<1>3. /\ hook \in Hooks /\ Absent(hook) /\ writer.temp \in Hooks /\ NoHook \in Hooks
      /\ writer.temp.edit \in -1 .. edits
  BY NonesTyped DEF Base, Typed, Shared, Writers, Hooks
<1>4. kept' \subseteq -1 .. edits
  BY <1>2, <1>3, KeepingTyped
<1>5. mine' \in Memories
  BY <1>2, <1>3, MergedTyped DEF Base, Typed, Memories
<1>6. CASE writer' = NoWriter
  BY <1>1, <1>2, <1>3, <1>4, <1>5, <1>6, HookBase
<1>7. CASE cmd \in Noters /\ writer' = [NoWriter EXCEPT !.at = "note"] /\ Repeat
  <2>1. /\ writer'.at = "note" /\ writer'.source = NoHook /\ writer'.temp = NoHook /\ writer'.seen = {}
        /\ writer' \in Writers
    BY <1>3, <1>7 DEF NoWriter, Writers
  <2>2. Absent(NoHook) /\ UNCHANGED <<cmd, cleaning, todo>>
    BY <1>7 DEF Absent, Repeat, Steady
  <2>3. Writing'
    BY <1>1, <1>7, <2>1, <2>2 DEF Writing, Running, Names
  <2>. QED BY <1>1, <1>2, <1>3, <1>4, <1>5, <2>1, <2>2, <2>3, HookBase
<1>. QED BY <1>6, <1>7 DEF CommitHook

\* What is committed and not noted for certain is, too.
LEMMA FaultExchangedBase == ASSUME Base, FaultExchanged PROVE Base'
<1>1. Running /\ Moves
  BY FaultExchangedWay
<1>2. /\ UNCHANGED <<current, releases, quarantined, files, service, links, gens, hook>>
      /\ kept' = Keeping({writer.temp.edit}) /\ writer' = NoWriter
      /\ mine' \in {mine, Noting(hook), [mine EXCEPT !.spared = "hooks"],
                   [mine EXCEPT !.hook = Merged, !.noted = TRUE]}
  BY DEF FaultExchanged
<1>3. hook \in Hooks /\ Absent(hook) /\ writer.temp \in Hooks
  BY DEF Base, Typed, Shared, Writers
<1>4. kept' \subseteq -1 .. edits
  BY <1>2, <1>3, KeepingTyped
<1>5. mine' \in Memories
  <2>1. Noting(hook) \in Memories /\ Merged \in Hooks
    BY <1>3, KeepingTyped, MergedTyped
  <2>. QED BY <1>2, <2>1, ZenonT(30) DEF Base, Typed, Memories
<1>. QED BY <1>1, <1>2, <1>3, <1>4, <1>5, HookBase

\* What the recovery displaces is a configuration again.
LEMMA RecoverHookBase == ASSUME Base, RecoverHook PROVE Base'
<1>1. Running /\ Moves /\ cleaning = FALSE /\ Head(todo) \in {"hooks", "unhook"}
  BY RecoverHookWay
<1>2. /\ UNCHANGED <<current, releases, quarantined, files, service, links, gens>>
      /\ kept' = Keeping({writer.temp.edit, Merged.edit}) /\ hook' \in {hook, writer.temp}
  BY DEF RecoverHook
<1>3. /\ hook \in Hooks /\ Absent(hook) /\ writer.temp \in Hooks /\ Absent(writer.temp)
      /\ writer \in Writers
  BY DEF Base, Typed, Shared, Writers
<1>4. kept' \subseteq -1 .. edits
  BY <1>2, <1>3, KeepingTyped, MergedTyped
<1>5. CASE writer' = NoWriter /\ \E h \in {hook, writer.temp} : mine' = NotingFailure(h)
  BY <1>1, <1>2, <1>3, <1>4, <1>5, HookBase, KeepingTyped
<1>6. CASE /\ writer' = [writer EXCEPT !.temp = hook, !.seen = @ \cup {writer.temp}]
           /\ mine' = mine /\ Repeat
  <2>1. /\ writer'.at = writer.at /\ writer'.source = writer.source /\ writer'.temp = hook
        /\ writer'.seen = writer.seen \cup {writer.temp} /\ writer' \in Writers
    BY <1>3, <1>6 DEF Writers
  <2>2. UNCHANGED <<cmd, cleaning, todo>> /\ writer.at = "exchanged" /\ mine' \in Memories
    BY <1>6 DEF Repeat, Steady, RecoverHook, Base, Typed
  <2>3. Writing'
    BY <1>1, <2>1, <2>2 DEF Writing, Running, Names
  <2>4. Absent(writer.source) /\ \A h \in writer.seen : Absent(h)
    BY DEF Base, Shared
  <2>. QED BY <1>1, <1>2, <1>3, <1>4, <2>1, <2>2, <2>3, <2>4, HookBase
<1>. QED BY <1>2, <1>5, <1>6 DEF RecoverHook

\* The plain replacement of the first run is of a configuration it has read.
LEMMA PlainHookBase == ASSUME Base, ReplacePlainly \/ NoteHook PROVE Base'
<1>1. CASE NoteHook
  <2>1. Running /\ Moves
    BY <1>1, NoteHookWay
  <2>2. /\ UNCHANGED <<current, releases, quarantined, files, service, links, gens, hook, kept>>
        /\ writer' = NoWriter /\ mine' = [mine EXCEPT !.hook = hook, !.noted = TRUE]
    BY <1>1 DEF NoteHook, disk
  <2>3. hook \in Hooks /\ Absent(hook) /\ kept \subseteq -1 .. edits
    BY DEF Base, Typed, Shared
  <2>4. mine' \in Memories
    BY <2>2, <2>3 DEF Base, Typed, Memories
  <2>. QED BY <2>1, <2>2, <2>3, <2>4, HookBase
<1>2. CASE ReplacePlainly
  <2>1. Running /\ Moves /\ cleaning = FALSE /\ Head(todo) \in {"hooks", "unhook"}
    BY <1>2, ReplacePlainlyWay
  <2>2. /\ UNCHANGED <<current, releases, quarantined, files, service, links, gens, mine>>
        /\ hook' = [ours |-> FALSE, edit |-> writer.source.edit] /\ kept' = Keeping({writer.source.edit})
        /\ writer' = [NoWriter EXCEPT !.at = "note"] /\ UNCHANGED <<cmd, cleaning, todo>>
    BY <1>2 DEF ReplacePlainly, Repeat, Steady
  <2>3. /\ writer.source \in Hooks /\ Absent(writer.source) /\ writer.source.ours /\ cmd = "first"
        /\ NoHook \in Hooks
    BY <1>2, NonesTyped DEF ReplacePlainly, Base, Typed, Shared, Writing, Writers
  <2>4. hook' \in Hooks /\ Absent(hook')
    BY <2>2, <2>3 DEF Hooks, Absent, NoHook
  <2>5. kept' \subseteq -1 .. edits /\ mine' \in Memories
    BY <2>2, <2>3, KeepingTyped DEF Base, Typed
  <2>6. /\ writer'.at = "note" /\ writer'.source = NoHook /\ writer'.temp = NoHook /\ writer'.seen = {}
        /\ writer' \in Writers
    BY <2>2, <2>3 DEF NoWriter, Writers
  <2>7. Absent(NoHook) /\ Writing'
    BY <2>1, <2>2, <2>3, <2>6 DEF Absent, Writing, Running, Names, Noters
  <2>. QED BY <2>1, <2>2, <2>4, <2>5, <2>6, <2>7, HookBase
<1>. QED BY <1>1, <1>2

\* What a cleanup claims and puts back is a configuration.
LEMMA ClaimHookBase == ASSUME Base, ClaimHook \/ PutHookBack \/ FaultInClaim PROVE Base'
<1>1. /\ hook \in Hooks /\ Absent(hook) /\ NoHook \in Hooks /\ Absent(NoHook)
      /\ before.hook \in Hooks /\ Absent(before.hook) /\ writer.temp \in Hooks
      /\ mine \in Memories /\ kept \subseteq -1 .. edits
  BY NonesTyped DEF Base, Typed, Shared, Absent, Snapshots, Writers
<1>2. CASE ClaimHook
  <2>1. Running /\ Moves /\ cleaning = TRUE /\ Head(todo) = "rehook" /\ writer = NoWriter
    BY <1>2, ClaimHookWay DEF ClaimHook, Base, Writing
  <2>2. /\ UNCHANGED <<current, releases, quarantined, files, service, links, gens, mine, kept>>
        /\ \/ hook' = hook /\ writer' = writer
           \/ /\ hook' = NoHook /\ writer' = [NoWriter EXCEPT !.at = "claimed", !.temp = hook]
              /\ Repeat
    BY <1>2 DEF ClaimHook
  <2>3. CASE hook' = hook /\ writer' = writer
    BY <1>1, <2>1, <2>2, <2>3, HookBase
  <2>4. CASE /\ hook' = NoHook /\ writer' = [NoWriter EXCEPT !.at = "claimed", !.temp = hook]
             /\ Repeat
    <3>1. /\ writer'.at = "claimed" /\ writer'.source = NoHook /\ writer'.temp = hook
          /\ writer'.seen = {} /\ writer' \in Writers
      BY <1>1, <2>4 DEF NoWriter, Writers
    <3>2. UNCHANGED <<cmd, cleaning, todo>>
      BY <2>4 DEF Repeat, Steady
    <3>3. Writing'
      BY <2>1, <3>1, <3>2 DEF Writing, Running, Names
    <3>. QED BY <1>1, <2>1, <2>2, <2>4, <3>1, <3>3, HookBase
  <2>. QED BY <2>2, <2>3, <2>4
<1>3. CASE PutHookBack
  <2>1. Running /\ Moves
    BY <1>3, PutHookBackWay
  <2>2. /\ UNCHANGED <<current, releases, quarantined, files, service, links, gens, mine>>
        /\ writer' = NoWriter /\ hook' \in {hook, before.hook}
        /\ kept' \in {kept, Keeping({writer.temp.edit})}
    BY <1>3 DEF PutHookBack
  <2>. QED BY <1>1, <2>1, <2>2, KeepingTyped, HookBase
<1>4. CASE FaultInClaim
  <2>1. Running /\ Moves
    BY <1>4, FaultInClaimWay
  <2>2. /\ UNCHANGED <<current, releases, quarantined, files, service, links, gens, mine>>
        /\ writer' = NoWriter /\ hook' \in {hook, writer.temp}
        /\ kept' \in {kept, Keeping({writer.temp.edit})}
    BY <1>4 DEF FaultInClaim
  <2>3. Absent(writer.temp)
    BY DEF Base, Shared
  <2>. QED BY <1>1, <2>1, <2>2, <2>3, KeepingTyped, HookBase
<1>. QED BY <1>2, <1>3, <1>4

\* The command line replaces the configuration by the one found.
LEMMA CompareHookBase == ASSUME Base, CompareHook \/ ReplaceWithOld PROVE Base'
<1>1. /\ hook \in Hooks /\ Absent(hook) /\ NoHook \in Hooks /\ Absent(NoHook)
      /\ before.hook \in Hooks /\ Absent(before.hook)
      /\ mine \in Memories /\ kept \subseteq -1 .. edits
  BY NonesTyped DEF Base, Typed, Shared, Absent, Snapshots
<1>2. CASE CompareHook
  <2>1. Running /\ Moves /\ cleaning = TRUE /\ Head(todo) = "clirehook" /\ writer = NoWriter
    BY <1>2, CompareHookWay DEF CompareHook, Base, Writing
  <2>2. /\ UNCHANGED <<current, releases, quarantined, files, service, links, gens, mine, kept, hook>>
        /\ \/ writer' = writer
           \/ mine.noted /\ writer' = [NoWriter EXCEPT !.at = "replace"] /\ Repeat
    BY <1>2 DEF CompareHook, disk
  <2>3. CASE writer' = writer
    BY <1>1, <2>1, <2>2, <2>3, HookBase
  <2>4. CASE mine.noted /\ writer' = [NoWriter EXCEPT !.at = "replace"] /\ Repeat
    <3>1. /\ writer'.at = "replace" /\ writer'.source = NoHook /\ writer'.temp = NoHook
          /\ writer'.seen = {} /\ writer' \in Writers
      BY <1>1, <2>4 DEF NoWriter, Writers
    <3>2. UNCHANGED <<cmd, cleaning, todo>>
      BY <2>4 DEF Repeat, Steady
    <3>3. Writing'
      BY <2>1, <2>2, <2>4, <3>1, <3>2 DEF Writing, Running, Names
    <3>. QED BY <1>1, <2>1, <2>2, <3>1, <3>3, HookBase
  <2>. QED BY <2>2, <2>3, <2>4
<1>3. CASE ReplaceWithOld
  <2>1. Running /\ Moves
    BY <1>3, ReplaceWithOldWay
  <2>2. /\ UNCHANGED <<current, releases, quarantined, files, service, links, gens, mine, kept>>
        /\ writer' = NoWriter /\ hook' = before.hook
    BY <1>3 DEF ReplaceWithOld
  <2>. QED BY <1>1, <2>1, <2>2, HookBase
<1>. QED BY <1>2, <1>3

-----------------------------------------------------------------------------
(* The start and the end of a command, and the others *)

\* What a command may begin with.
Beginning(c, v) ==
    /\ c \in Managing => v \in Versions
    /\ c = "rollback" => v = files.state.previous
    /\ c = "repair" => v = current.to

\* Every command begins with the steps of its kind.
LEMMA CommandsBegin ==
  ASSUME Base, Commands
  PROVE  \E c \in Names, v \in Versions \cup {None}, choice \in BOOLEAN :
             Begin(c, v, choice, Steps(c)) /\ Beginning(c, v)
<1>. USE DEF Names, Beginning, Managing
<1>1. /\ files.config.login \in BOOLEAN /\ files.state.previous \in Versions \cup {None}
      /\ files.config.version \in Versions \cup {None} /\ current.to \in Versions \cup {None}
      /\ releases \subseteq Versions
  BY DEF Base, Typed, Files, Links
<1>2. ASSUME NEW v \in Versions, Update(v) PROVE Begin("update", v, files.config.login, Steps("update"))
  BY <1>2 DEF Update, Steps
<1>3. ASSUME NEW v \in Versions, InstallCommand(v)
      PROVE  Begin("install", v, files.config.login, Steps("install"))
  BY <1>3 DEF InstallCommand, Steps
<1>4. CASE Rollback
  <2>1. /\ Begin("rollback", files.state.previous, files.config.login, Steps("rollback"))
        /\ files.state.previous \in Versions
    BY <1>1, <1>4 DEF Rollback, Steps
  <2>. QED BY <1>1, <2>1
<1>5. CASE Repair
  <2>1. Begin("repair", current.to, files.config.login, Steps("repair")) /\ current.to \in Versions
    BY <1>1, <1>5 DEF Repair, Steps
  <2>. QED BY <1>1, <2>1
<1>6. CASE HooksRepair
  <2>1. Begin("hooks", current.to, files.config.login, Steps("hooks"))
    BY <1>6 DEF HooksRepair, Steps
  <2>. QED BY <1>1, <2>1
<1>7. CASE StartCommand
  <2>1. Begin("start", current.to, files.config.login, Steps("start"))
    BY <1>7 DEF StartCommand, Steps
  <2>. QED BY <1>1, <2>1
<1>8. CASE Uninstall
  <2>1. Begin("uninstall", current.to, files.config.login, Steps("uninstall"))
    BY <1>8 DEF Uninstall, Steps
  <2>. QED BY <1>1, <2>1
<1>9. ASSUME NEW choice \in BOOLEAN, FirstRun(choice)
      PROVE  Begin("first", files.config.version, choice, Steps("first"))
  BY <1>9 DEF FirstRun, Steps
<1>. QED BY <1>1, <1>2, <1>3, <1>4, <1>5, <1>6, <1>7, <1>8, <1>9 DEF Commands

\* What the command finds has its type.
LEMMA SnapshotTyped ==
  ASSUME Base
  PROVE  Snapshot \in Snapshots /\ Linked(Snapshot.current) /\ Absent(Snapshot.hook)
BY DEF Base, Typed, Shared, Snapshot, Snapshots

\* A writer rests between the commands.
LEMMA WriterWaits ==
  ASSUME Base, cmd = "none" \/ todo = <<>>
  PROVE  writer = NoWriter
BY DEF Base, Typed, Writing, Writers

\* A command begins past none of its steps and with what it found.
LEMMA BeginBase ==
  ASSUME Base, NEW c \in Names, NEW v \in Versions \cup {None}, NEW choice \in BOOLEAN,
         Begin(c, v, choice, Steps(c)), Beginning(c, v)
  PROVE  Base'
<1>1. /\ cmd = "none" /\ cmd' = c /\ target' = v /\ login' = choice /\ todo' = Steps(c)
      /\ cleaning' = FALSE /\ errors' = FALSE /\ mine' = Fresh /\ before' = Snapshot
      /\ disturbed' = FALSE
      /\ UNCHANGED <<current, releases, quarantined, files, hook, kept, service, writer, scheduled,
                     links, gens, edits, relinked, conflicted, asked>>
  BY DEF Begin, disk
<1>2. UNCHANGED <<Links, Hooks, Files, Memories, Snapshots, Writers>>
  BY <1>1, TypesStay
<1>3. writer = NoWriter /\ quarantined = {}
  BY <1>1, WriterWaits DEF Base, Shared
<1>4. Typed'
  BY <1>1, <1>2, NonesTyped, SnapshotTyped DEF Base, Typed
<1>5. OnTrack'
  <2>1. Steps(c) \in Seq(AllSteps)
    BY TracksTyped
  <2>. QED BY <1>1, <2>1, WholeEnds DEF OnTrack, Track, Names
<1>6. Shared'
  <2>1. before'.files = files /\ before'.current = current
    BY <1>1 DEF Snapshot
  <2>2. Linked(before'.current) /\ Absent(before'.hook)
    BY <1>1, SnapshotTyped
  <2>. QED BY <1>1, <1>3, <2>1, <2>2 DEF Base, Shared, Linked, Absent, Beginning, Managing
<1>7. Writing'
  BY <1>1, <1>3, IdleWriter
<1>. QED BY <1>4, <1>5, <1>6, <1>7 DEF Base

\* A command that ends leaves a writer at rest and nothing quarantined.
LEMMA FinishBase == ASSUME Base, Finish PROVE Base'
<1>1. /\ cmd' = "none" /\ todo = <<>>
      /\ scheduled' = scheduled \/ scheduled' = mine.gen
      /\ asked' = asked \/ asked' = (cmd = "first" /\ ~login)
      /\ (before' = before /\ mine' = mine) \/ (before' = Snapshot /\ mine' = Fresh)
      /\ quarantined' = {}
      /\ UNCHANGED <<current, releases, files, hook, kept, service, todo, cleaning, errors, target,
                     login, writer, links, gens, edits, relinked, disturbed, conflicted>>
  BY DEF Finish, counters
<1>2. UNCHANGED <<Links, Hooks, Files, Memories, Snapshots, Writers>>
  BY <1>1, TypesStay
<1>3. writer = NoWriter
  BY <1>1, WriterWaits
<1>4. /\ before' \in Snapshots /\ Linked(before'.current) /\ Absent(before'.hook) /\ mine' \in Memories
      /\ scheduled' \in 0 .. gens /\ asked' \in BOOLEAN
  <2>1. before \in Snapshots /\ Linked(before.current) /\ Absent(before.hook) /\ mine \in Memories
    BY DEF Base, Typed, Shared
  <2>2. before' \in Snapshots /\ Linked(before'.current) /\ Absent(before'.hook)
    BY <1>1, <2>1, SnapshotTyped
  <2>3. mine' \in Memories
    BY <1>1, <2>1, NonesTyped DEF Base
  <2>4. scheduled' \in 0 .. gens /\ asked' \in BOOLEAN
    BY <1>1, <2>1 DEF Base, Typed, Memories
  <2>. QED BY <2>2, <2>3, <2>4
<1>5. Typed'
  BY <1>1, <1>2, <1>4 DEF Base, Typed
<1>6. OnTrack' /\ Writing'
  BY <1>1, <1>3, IdleWriter DEF OnTrack
<1>7. Shared'
  BY <1>1, <1>4 DEF Base, Shared, Linked, Absent
<1>. QED BY <1>5, <1>6, <1>7 DEF Base

\* So does one that dies.
LEMMA CrashBase == ASSUME Base, Crash PROVE Base'
<1>1. /\ cmd' = "none" /\ kept' = Keeping({writer.temp.edit}) /\ writer' = NoWriter
      /\ todo' = <<>> /\ cleaning' = FALSE /\ errors' = FALSE /\ target' = None /\ login' = TRUE
      /\ before' = Snapshot /\ mine' = Fresh /\ quarantined' = {}
      /\ UNCHANGED <<current, releases, files, hook, service, scheduled, links, gens,
                     edits, relinked, disturbed, conflicted, asked>>
  BY DEF Crash
<1>2. UNCHANGED <<Links, Hooks, Files, Memories, Snapshots, Writers>>
  BY <1>1, TypesStay
<1>3. kept' \subseteq -1 .. edits
  <2>1. writer.temp \in Hooks
    BY DEF Base, Typed, Writers
  <2>. QED BY <1>1, <2>1, KeepingTyped
<1>4. /\ before' \in Snapshots /\ Linked(before'.current) /\ Absent(before'.hook)
      /\ mine' \in Memories /\ writer' \in Writers
  BY <1>1, SnapshotTyped, NonesTyped DEF Base
<1>5. Typed'
  BY <1>1, <1>2, <1>3, <1>4 DEF Base, Typed
<1>6. /\ OnTrack' /\ Writing'
      /\ Absent(writer'.source) /\ Absent(writer'.temp) /\ \A h \in writer'.seen : Absent(h)
  BY <1>1, IdleWriter DEF OnTrack
<1>7. Shared'
  BY <1>1, <1>4, <1>6 DEF Base, Shared, Linked, Absent
<1>. QED BY <1>5, <1>6, <1>7 DEF Base

\* What happens next to a command leaves the command alone.
Apart == UNCHANGED <<command, conflicted, torn>>

\* What leaves the command alone and stays within the types keeps the base of the invariant.
LEMMA ApartBase ==
  ASSUME Base, Apart, UNCHANGED <<releases, quarantined, kept, gens>>,
         links' \in {links, links + 1}, edits' \in {edits, edits + 1},
         current' \in Links', Linked(current'), files' \in Files, hook' \in Hooks', Absent(hook'),
         service' \in Versions \cup {None}, scheduled' \in 0 .. gens,
         {disturbed', relinked', asked'} \subseteq BOOLEAN
  PROVE  Base'
<1>1. UNCHANGED <<cmd, todo, cleaning, errors, target, login, before, mine, writer, conflicted>>
  BY DEF Apart, command
<1>2. /\ Files \subseteq Files' /\ Snapshots \subseteq Snapshots' /\ Memories \subseteq Memories'
      /\ Writers \subseteq Writers' /\ kept' \subseteq -1 .. edits'
      /\ links' \in Nat /\ edits' \in Nat
  BY TypesGrow DEF Base, Typed
<1>3. Typed'
  BY <1>1, <1>2 DEF Base, Typed
<1>4. OnTrack'
  BY <1>1 DEF Base, OnTrack, Track
<1>5. Shared'
  BY <1>1 DEF Base, Shared, Linked, Absent
<1>6. Writing'
  BY <1>1 DEF Base, Writing
<1>. QED BY <1>3, <1>4, <1>5, <1>6 DEF Base

\* The scheduled stop, the edits and the links by others do.
LEMMA OthersBase == ASSUME Base, ScheduledBootout \/ Edit \/ Relink PROVE Base' /\ Apart
<1>1. /\ NoFiles \in Files /\ links \in Nat /\ edits \in Nat /\ gens \in Nat /\ files \in Files
      /\ scheduled \in 0 .. gens
      /\ current \in Links /\ Linked(current) /\ hook \in Hooks /\ Absent(hook)
  BY NonesTyped DEF Base, Typed, Shared
<1>2. CASE ScheduledBootout
  <2>1. /\ UNCHANGED <<releases, quarantined, kept, gens, links, edits, current, hook, relinked, asked>>
        /\ Apart /\ scheduled' = 0 /\ disturbed' = TRUE
        /\ files' \in {files, [files EXCEPT !.action = NoFiles.action]} /\ service' \in {service, None}
    BY <1>2 DEF ScheduledBootout, Apart, counters
  <2>2. files' \in Files
    BY <1>1, <2>1 DEF Files
  <2>3. Links' = Links /\ Hooks' = Hooks
    BY <2>1, TypesStay
  <2>. QED BY <1>1, <2>1, <2>2, <2>3, ApartBase DEF Base, Typed
<1>3. CASE Edit
  <2>1. /\ UNCHANGED <<releases, quarantined, kept, gens, links, current, relinked, asked, files,
                       service, scheduled>>
        /\ Apart /\ edits' = edits + 1 /\ hook' = [ours |-> hook.ours, edit |-> edits + 1]
        /\ disturbed' = TRUE
    BY <1>3 DEF Edit, Apart
  <2>2. hook' \in Hooks' /\ Absent(hook')
    BY <1>1, <2>1 DEF Hooks, Absent
  <2>3. Links' = Links
    BY <2>1 DEF Links
  <2>. QED BY <1>1, <2>1, <2>2, <2>3, ApartBase DEF Base, Typed
<1>4. CASE Relink
  <2>1. /\ UNCHANGED <<releases, quarantined, kept, gens, edits, asked, files,
                       service, scheduled, hook>>
        /\ Apart /\ links' = links + 1 /\ disturbed' = TRUE /\ relinked' = TRUE
        /\ \E v \in releases : current' = [to |-> v, id |-> links + 1]
    BY <1>4 DEF Relink, Apart
  <2>2. current' \in Links' /\ Linked(current')
    BY <2>1, Linking
  <2>3. Hooks' = Hooks
    BY <2>1 DEF Hooks
  <2>. QED BY <1>1, <2>1, <2>2, <2>3, ApartBase DEF Base, Typed
<1>. QED BY <1>2, <1>3, <1>4

-----------------------------------------------------------------------------
(* Type correctness *)

\* The clone begins with nothing installed, or with one version that runs.
LEMMA InitBase == Init => Base
<1>. SUFFICES ASSUME Init PROVE Base
  OBVIOUS
<1>1. /\ quarantined = {} /\ kept = {} /\ scheduled = 0 /\ cmd = "none" /\ todo = <<>>
      /\ cleaning = FALSE /\ errors = FALSE /\ target = None /\ login = TRUE
      /\ before = Snapshot /\ mine = Fresh /\ writer = NoWriter
      /\ links = 1 /\ gens = 1 /\ edits = 0 /\ relinked = FALSE /\ disturbed = FALSE
      /\ conflicted = FALSE /\ asked = FALSE
  BY DEF Init
<1>2. /\ current \in Links /\ Linked(current) /\ releases \subseteq Versions /\ files \in Files
      /\ hook \in Hooks /\ Absent(hook) /\ service \in Versions \cup {None}
  <2>. USE <1>1 DEF None
  <2>1. CASE /\ current = NoLink /\ releases = {} /\ files = NoFiles
             /\ hook \in {NoHook, [ours |-> FALSE, edit |-> 0]} /\ service = None
    <3>1. current \in Links /\ Linked(current) /\ releases \subseteq Versions
      BY <2>1 DEF NoLink, Links, Linked
    <3>2. hook \in Hooks /\ Absent(hook)
      <4>1. CASE hook = NoHook
        BY <4>1 DEF NoHook, Hooks, Absent
      <4>2. CASE hook = [ours |-> FALSE, edit |-> 0]
        BY <4>2 DEF Hooks, Absent
      <4>. QED BY <2>1, <4>1, <4>2
    <3>3. files \in Files
      BY <2>1 DEF NoFiles, Files
    <3>. QED BY <2>1, <3>1, <3>2, <3>3
  <2>2. ASSUME NEW v \in Versions, current = [to |-> v, id |-> 1], releases = {v}, service = v,
               files = [config |-> [version |-> v, login |-> TRUE], launcher |-> TRUE,
                        agent |-> "login", state |-> [current |-> v, previous |-> None],
                        action |-> [gen |-> 1, login |-> TRUE]],
               hook = [ours |-> TRUE, edit |-> 0]
        PROVE  /\ current \in Links /\ Linked(current) /\ releases \subseteq Versions
               /\ files \in Files /\ hook \in Hooks /\ Absent(hook)
               /\ service \in Versions \cup {None}
    <3>1. v # None
      BY VersionsAssumption
    <3>. QED BY <2>2, <3>1 DEF Links, Linked, Files, Hooks, Absent
  <2>3. ASSUME NEW v \in Versions
        PROVE  v # None
    BY VersionsAssumption
  <2>. QED BY <2>1, <2>2, <2>3 DEF Init
<1>3. /\ before \in Snapshots /\ Linked(before.current) /\ Absent(before.hook)
  BY <1>1, <1>2 DEF Snapshot, Snapshots
<1>4. mine \in Memories /\ writer \in Writers
  <2>1. NoLink \in Links /\ NoHook \in Hooks
    BY <1>1 DEF NoLink, NoHook, Links, Hooks, None
  <2>. QED BY <1>1, <2>1 DEF Fresh, NoWriter, Memories, Writers
<1>5. Typed
  <2>1. /\ links \in Nat /\ gens \in Nat /\ edits \in Nat /\ scheduled \in 0 .. gens
        /\ kept \subseteq -1 .. edits
    BY <1>1
  <2>2. /\ {cleaning, errors, login} \subseteq BOOLEAN
        /\ {disturbed, relinked, conflicted, asked} \subseteq BOOLEAN
    BY <1>1
  <2>3. cmd \in Names \cup {"none"} /\ target \in Versions \cup {None} /\ quarantined \subseteq Versions
    BY <1>1
  <2>. QED BY <1>2, <1>3, <1>4, <2>1, <2>2, <2>3 DEF Typed
<1>6. OnTrack /\ Writing /\ Absent(writer.source) /\ Absent(writer.temp) /\ \A h \in writer.seen : Absent(h)
  <2>1. writer.at = "idle" /\ writer.source = NoHook /\ writer.temp = NoHook /\ writer.seen = {}
    BY <1>1 DEF NoWriter
  <2>. QED BY <1>1, <2>1 DEF OnTrack, Writing, Absent
<1>7. Shared
  BY <1>1, <1>2, <1>3, <1>6 DEF Shared
<1>. QED BY <1>5, <1>6, <1>7 DEF Base

\* The actions of a running command.
Step ==
    \/ Publish \/ Activate \/ WriteFile \/ WriteAction \/ StartService \/ Smoke \/ Bootout
    \/ UnlinkFile \/ DropCurrent \/ Quarantine \/ DeleteQuarantined
    \/ ReadHook \/ RefuseHook \/ ExchangeHook \/ CommitHook \/ YieldHook \/ RecoverHook
    \/ ReplacePlainly \/ NoteHook
    \/ RestoreFile \/ WithdrawAction \/ ClaimHook \/ PutHookBack \/ CompareHook
    \/ ReplaceWithOld \/ ForgetBackup \/ RestoreVersion \/ RestartService
    \/ RemoveRelease \/ RestoreReleases
    \/ Fault \/ FaultPublished \/ FaultSwitched \/ FaultInAction \/ FaultStopped
    \/ FaultUnlinked \/ FaultDropped \/ FaultExchanged \/ FaultAtTheEnd
    \/ FaultInCleanup \/ FaultInClaim

\* What can happen: a command begins, takes a step, ends or dies, or another program acts.
LEMMA NextSplits ==
  Next <=> Commands \/ Step \/ Finish \/ Crash \/ ScheduledBootout \/ Edit \/ Relink
BY Zenon DEF Next, Step, Transition, HookWriter, Restoring, Faults

\* Every step of a command keeps the base of the invariant.
LEMMA StepBase == ASSUME Base, Step PROVE Base'
<1>1. CASE \/ Publish \/ Quarantine \/ DeleteQuarantined \/ RemoveRelease \/ RestoreReleases
           \/ FaultPublished
  BY <1>1, ReleasesBase
<1>2. CASE Activate \/ DropCurrent \/ RestoreVersion \/ FaultSwitched \/ FaultDropped
  BY <1>2, ActivateBase, DropCurrentBase, RestoreVersionBase, FaultSwitchedBase
<1>3. CASE WriteFile \/ WriteAction \/ UnlinkFile \/ RestoreFile \/ WithdrawAction \/ ForgetBackup
  BY <1>3, WriteFileBase, WriteActionBase, UnlinkFileBase, RestoreFileBase, ForgetBackupBase
<1>4. CASE StartService \/ RestartService \/ Smoke \/ FaultInCleanup \/ Bootout \/ Fault \/ FaultAtTheEnd
  BY <1>4, ServiceBase, BootoutBase, FaultBase, EndBase
<1>5. CASE ReadHook \/ RefuseHook \/ ExchangeHook \/ CommitHook \/ YieldHook \/ RecoverHook
  BY <1>5, ReadHookBase, RefusingBase, ExchangeHookBase, CommitHookBase, RecoverHookBase
<1>6. CASE ReplacePlainly \/ NoteHook \/ ClaimHook \/ PutHookBack \/ CompareHook \/ ReplaceWithOld
  BY <1>6, PlainHookBase, ClaimHookBase, CompareHookBase
<1>7. CASE FaultInAction \/ FaultStopped \/ FaultUnlinked \/ FaultExchanged \/ FaultInClaim
  BY <1>7, FaultInActionBase, BootoutBase, UnlinkFileBase, FaultExchangedBase, ClaimHookBase
<1>. QED BY <1>1, <1>2, <1>3, <1>4, <1>5, <1>6, <1>7 DEF Step

\* The base holds throughout: types, the steps left, what the hook writer may be at.
LEMMA BaseInvariant == Spec => []Base
<1>1. ASSUME Base, [Next]_vars PROVE Base'
  <2>1. CASE Commands
    BY <1>1, <2>1, CommandsBegin, BeginBase
  <2>2. CASE Step
    BY <1>1, <2>2, StepBase
  <2>3. CASE Finish
    BY <1>1, <2>3, FinishBase
  <2>4. CASE Crash
    BY <1>1, <2>4, CrashBase
  <2>5. CASE ScheduledBootout \/ Edit \/ Relink
    BY <1>1, <2>5, OthersBase
  <2>6. CASE UNCHANGED vars
    <3>1. /\ UNCHANGED <<disk, command, scheduled, counters>>
          /\ UNCHANGED <<relinked, disturbed, torn, conflicted, asked>>
      BY <2>6 DEF vars, history
    <3>2. UNCHANGED <<current, releases, quarantined, kept, gens, links, edits, files, hook, service>>
      BY <3>1 DEF disk, counters
    <3>3. Links' = Links /\ Hooks' = Hooks
      BY <3>2, TypesStay
    <3>. QED BY <1>1, <3>1, <3>2, <3>3, ApartBase DEF Apart, Base, Typed, Shared
  <2>. QED BY <1>1, <2>1, <2>2, <2>3, <2>4, <2>5, <2>6, NextSplits
<1>. QED BY <1>1, InitBase, PTL DEF Spec

\* TypeOK: the link, the releases, the files, the hooks, the service and the command keep their
\* types, and no release is installed and quarantined, for any versions, commands and incidents.
THEOREM TypeCorrect == Spec => []TypeOK
<1>1. Base => TypeOK
  BY DEF Base, Typed, Shared, TypeOK, Links, Files, Hooks, Names
<1>. QED BY <1>1, BaseInvariant, PTL

-----------------------------------------------------------------------------
(* What a step changes *)

\* What follows a step is still left.
LEMMA Coming ==
  ASSUME NEW t \in Seq(AllSteps), Injective(t), NEW s, Ends(s, t), s # <<>>,
         NEW m \in 1 .. Len(t), Head(s) = t[m], NEW k \in m .. Len(t)
  PROVE  t[k] \in Items(s)
<1>1. /\ s \in Seq(AllSteps) /\ Len(s) \in Nat /\ Len(s) > 0 /\ Len(t) \in Nat
      /\ Head(s) = s[1] /\ Len(s) <= Len(t)
  BY DEF Ends
<1>2. m = 1 + Len(t) - Len(s)
  <2>1. 1 + Len(t) - Len(s) \in 1 .. Len(t)
    BY <1>1
  <2>2. t[m] = t[1 + Len(t) - Len(s)]
    BY <1>1 DEF Ends
  <2>. QED BY <2>1, <2>2 DEF Injective
<1>3. k - Len(t) + Len(s) \in 1 .. Len(s)
  BY <1>1, <1>2
<1>4. s[k - Len(t) + Len(s)] = t[k]
  <2>1. s[k - Len(t) + Len(s)] = t[k - Len(t) + Len(s) + Len(t) - Len(s)]
    BY <1>3 DEF Ends
  <2>2. k - Len(t) + Len(s) + Len(t) - Len(s) = k
    BY <1>1
  <2>. QED BY <2>1, <2>2
<1>. QED BY <1>3, <1>4 DEF Items

\* A cleanup that stops the service starts it afterwards.
LEMMA StopsFirst ==
  ASSUME Base, Running, cleaning = TRUE, Head(todo) = "bootout",
         cmd \in {"update", "rollback", "repair", "install"}
  PROVE  ~Past("service")
<1>1. Track \in Seq(AllSteps) /\ Injective(Track) /\ Ends(todo, Track)
  BY TrackTyped DEF Base, Typed, OnTrack, Running, Names
<1>2. \E m \in 1 .. Len(Track) : \E k \in m .. Len(Track) :
          Track[m] = "bootout" /\ Track[k] = "service"
  <2>1. CASE cmd = "update"
    <3>1. Track = <<"bootout", "files", "rehook", "version", "service", "release">>
      BY <2>1 DEF Track, Cleanup
    <3>2. Len(Track) = 6 /\ Track[1] = "bootout" /\ Track[5] = "service"
      BY <3>1
    <3>3. 1 \in 1 .. 6 /\ 5 \in 1 .. 6
      OBVIOUS
    <3>. QED BY <3>2, <3>3
  <2>2. CASE cmd = "rollback"
    <3>1. Track = <<"bootout", "files", "rehook", "version", "service">>
      BY <2>2 DEF Track, Cleanup
    <3>2. Len(Track) = 5 /\ Track[1] = "bootout" /\ Track[5] = "service"
      BY <3>1
    <3>3. 1 \in 1 .. 5 /\ 5 \in 1 .. 5
      OBVIOUS
    <3>. QED BY <3>2, <3>3
  <2>3. CASE cmd = "repair"
    <3>1. Track = <<"bootout", "files", "rehook", "service">>
      BY <2>3 DEF Track, Cleanup
    <3>2. Len(Track) = 4 /\ Track[1] = "bootout" /\ Track[4] = "service"
      BY <3>1
    <3>3. 1 \in 1 .. 4 /\ 4 \in 1 .. 4
      OBVIOUS
    <3>. QED BY <3>2, <3>3
  <2>4. CASE cmd = "install"
    <3>1. Track = <<"unpend", "bootout", "clirehook", "files", "version", "service", "release",
                    "forget">>
      BY <2>4 DEF Track, Cleanup
    <3>2. Len(Track) = 8 /\ Track[2] = "bootout" /\ Track[6] = "service"
      BY <3>1
    <3>3. 2 \in 1 .. 8 /\ 6 \in 2 .. 8
      OBVIOUS
    <3>. QED BY <3>2, <3>3
  <2>. QED BY <2>1, <2>2, <2>3, <2>4
<1>3. PICK m \in 1 .. Len(Track) : \E k \in m .. Len(Track) :
          Track[m] = "bootout" /\ Track[k] = "service"
  BY <1>2
<1>4. PICK k \in m .. Len(Track) : Track[k] = "service"
  BY <1>3
<1>5. Track[k] \in Items(todo)
  BY <1>1, <1>3, <1>4, Coming DEF Running
<1>. QED BY <1>4, <1>5 DEF Past, Left

\* A cleanup begins with all its steps before it.
LEMMA TurnItems ==
  ASSUME Running, Turns
  PROVE  /\ cmd # "hooks" => ~Past("files")'
         /\ cmd \in Switching \cup {"uninstall"} => ~Past("version")'
         /\ cmd \in Publishing => ~Past("release")'
         /\ cmd = "uninstall" => ~Past("unquarantine")'
         /\ cmd # "start" => ~(Past("rehook") /\ Past("clirehook"))'
         /\ cmd \notin {"hooks", "start"} => ~Past("service")'
         /\ cmd \in Managing => ~Past("bootout")'
         /\ cmd \in Withdrawing => ~Past("unpend")'
<1>. USE DEF Turns, Past, Switching, Publishing, Managing, Withdrawing
<1>1. CASE cmd = "update"
  BY <1>1, CleanupItems
<1>2. CASE cmd = "rollback"
  BY <1>2, CleanupItems
<1>3. CASE cmd = "repair"
  BY <1>3, CleanupItems
<1>4. CASE cmd = "install"
  BY <1>4, CleanupItems
<1>5. CASE cmd = "hooks"
  BY <1>5, CleanupItems
<1>6. CASE cmd = "start"
  BY <1>6, CleanupItems
<1>7. CASE cmd = "first"
  BY <1>7, CleanupItems
<1>8. CASE cmd = "uninstall"
  BY <1>8, CleanupItems
<1>. QED BY <1>1, <1>2, <1>3, <1>4, <1>5, <1>6, <1>7, <1>8 DEF Running, Names

\* The steps by what they change.
LinkSteps == {"publish", "activate", "drop", "quarantine", "delete", "version", "release",
              "unquarantine"}
FileSteps == {"config", "launcher", "agent", "state", "pending", "done", "unlink", "files", "unpend"}
ServiceSteps == {"service", "bootout"}
OtherSteps == {"smoke", "forget"}

\* A step leads to a cleanup, or ends one of the steps S, or goes on with it.
Passing(S) ==
    /\ Running /\ Moves
    /\ Stays \/ (Goes /\ Head(todo) \in S) \/ Skips \/ Turns \/ Reports \/ Late

HookStep ==
    \/ ReadHook \/ RefuseHook \/ ExchangeHook \/ CommitHook \/ YieldHook \/ RecoverHook
    \/ ReplacePlainly \/ NoteHook \/ ClaimHook \/ PutHookBack \/ CompareHook \/ ReplaceWithOld
    \/ FaultExchanged \/ FaultInClaim
LinkStep ==
    \/ Publish \/ Activate \/ DropCurrent \/ Quarantine \/ DeleteQuarantined
    \/ RestoreVersion \/ RemoveRelease \/ RestoreReleases
    \/ FaultPublished \/ FaultSwitched \/ FaultDropped
FileStep ==
    \/ WriteFile \/ WriteAction \/ UnlinkFile \/ RestoreFile \/ WithdrawAction
    \/ FaultInAction \/ FaultUnlinked \/ FaultAtTheEnd
ServiceStep == StartService \/ RestartService \/ Bootout \/ FaultStopped
OtherStep == Smoke \/ FaultInCleanup \/ ForgetBackup

\* The steps by what they change.
LEMMA StepKinds ==
  Step <=> HookStep \/ LinkStep \/ FileStep \/ ServiceStep \/ OtherStep \/ Fault
BY Zenon DEF Step, HookStep, LinkStep, FileStep, ServiceStep, OtherStep

\* What a hook step remembers is about the hooks.
Recalling ==
    /\ mine'.link = mine.link /\ mine'.release = mine.release /\ mine'.attempted = mine.attempted
    /\ mine'.pending = mine.pending /\ mine'.stopped = mine.stopped
    /\ mine'.dropped = mine.dropped /\ mine'.gen = mine.gen
    /\ mine'.spared = mine.spared \/ (cmd = "first" /\ Turns /\ errors' = TRUE)

\* A step that goes on, and one that fails without an effect, tears nothing.
LEMMA TornStays ==
  ASSUME Advance \/ Repeat \/ Conflict
  PROVE  torn' = torn
BY DEF Advance, Repeat, Conflict

\* Noting the configuration leaves the rest of what the command remembers alone.
LEMMA Noted ==
  ASSUME Base, NEW h, mine' = Noting(h) \/ mine' = NotingFailure(h)
  PROVE  Recalling
BY DEF Noting, NotingFailure, Recalling, Base, Typed, Memories

\* A step of the hooks leaves the link, the releases, the files and the service alone.
LEMMA HookKind ==
  ASSUME Base, HookStep
  PROVE  /\ Passing(HookSteps) /\ Recalling
         /\ UNCHANGED <<current, releases, quarantined, files, service, links, gens, torn>>
<1>. USE TornStays DEF Passing, HookSteps
<1>1. CASE ReadHook
  <2>1. Passing(HookSteps)
    BY <1>1, ReadHookWay
  <2>2. Recalling
    BY <1>1, Noted DEF ReadHook, Recalling
  <2>. QED BY <1>1, <2>1, <2>2 DEF ReadHook, disk
<1>2. CASE RefuseHook
  BY <1>2, RefuseHookWay, Noted DEF RefuseHook
<1>3. CASE ExchangeHook
  BY <1>3, ExchangeHookWay DEF ExchangeHook, Recalling
<1>4. CASE CommitHook
  <2>1. mine' = [mine EXCEPT !.hook = Merged, !.noted = cmd \notin Noters, !.backup = writer.temp.edit]
    BY <1>4 DEF CommitHook
  <2>2. Recalling
    BY <2>1 DEF Recalling, Base, Typed, Memories
  <2>. QED BY <1>4, <2>2, CommitHookWay DEF CommitHook
<1>5. CASE YieldHook
  BY <1>5, YieldHookWay, Noted DEF YieldHook
<1>6. CASE RecoverHook
  <2>1. mine' = mine \/ \E h \in {hook, hook'} : mine' = NotingFailure(h)
    BY <1>6 DEF RecoverHook
  <2>2. Recalling
    BY <2>1, Noted DEF Recalling
  <2>. QED BY <1>6, <2>2, RecoverHookWay DEF RecoverHook
<1>7. CASE ReplacePlainly
  BY <1>7, ReplacePlainlyWay DEF ReplacePlainly, Recalling
<1>8. CASE NoteHook
  <2>1. mine' = [mine EXCEPT !.hook = hook, !.noted = TRUE]
    BY <1>8 DEF NoteHook
  <2>2. Recalling
    BY <2>1 DEF Recalling, Base, Typed, Memories
  <2>. QED BY <1>8, <2>2, NoteHookWay DEF NoteHook, disk
<1>9. CASE ClaimHook
  BY <1>9, ClaimHookWay DEF ClaimHook, Recalling
<1>10. CASE PutHookBack
  BY <1>10, PutHookBackWay DEF PutHookBack, Recalling
<1>11. CASE CompareHook
  BY <1>11, CompareHookWay DEF CompareHook, Recalling, disk
<1>12. CASE ReplaceWithOld
  BY <1>12, ReplaceWithOldWay DEF ReplaceWithOld, Recalling
<1>13. CASE FaultExchanged
  <2>1. /\ \/ mine' \in {mine, Noting(hook), [mine EXCEPT !.hook = Merged, !.noted = TRUE]}
           \/ cmd = "first" /\ mine' = [mine EXCEPT !.spared = "hooks"]
        /\ UNCHANGED <<current, releases, quarantined, files, service, links, gens, torn>>
    BY <1>13 DEF FaultExchanged
  <2>2. Passing(HookSteps) /\ Turns /\ Head(todo) # "service"
    BY <1>13, FaultExchangedWay
  <2>3. CASE mine' = Noting(hook)
    BY <2>1, <2>2, <2>3, Noted
  <2>4. CASE mine' \in {mine, [mine EXCEPT !.hook = Merged, !.noted = TRUE]}
    <3>1. Recalling
      BY <2>4 DEF Recalling, Base, Typed, Memories
    <3>. QED BY <2>1, <2>2, <3>1
  <2>5. CASE cmd = "first" /\ mine' = [mine EXCEPT !.spared = "hooks"]
    <3>1. errors' = TRUE
      BY <2>2, <2>5 DEF Turns
    <3>2. Recalling
      BY <2>2, <2>5, <3>1 DEF Recalling, Base, Typed, Memories
    <3>. QED BY <2>1, <2>2, <3>2
  <2>. QED BY <2>1, <2>3, <2>4, <2>5
<1>14. CASE FaultInClaim
  BY <1>14, FaultInClaimWay DEF FaultInClaim, Recalling
<1>. QED BY <1>1, <1>2, <1>3, <1>4, <1>5, <1>6, <1>7, <1>8, <1>9, <1>10, <1>11, <1>12, <1>13, <1>14
         DEF HookStep

\* A step of the link or the releases leaves the files, the hooks and the service alone.
LEMMA LinkKind ==
  ASSUME Base, LinkStep
  PROVE  /\ Passing(LinkSteps) /\ writer = NoWriter
         /\ UNCHANGED <<files, hook, kept, service, gens, writer>>
         /\ mine'.hook = mine.hook /\ mine'.noted = mine.noted /\ mine'.pending = mine.pending
         /\ mine'.stopped = mine.stopped /\ mine'.spared = mine.spared /\ mine'.gen = mine.gen
<1>1. Passing(LinkSteps) /\ Head(todo) \notin HookSteps
  BY PublishWay, ActivateWay, DropCurrentWay, QuarantineWay, DeleteQuarantinedWay,
     RestoreVersionWay, RemoveReleaseWay, RestoreReleasesWay, FaultPublishedWay, FaultSwitchedWay,
     FaultDroppedWay
     DEF LinkStep, Passing, LinkSteps, HookSteps
<1>2. UNCHANGED <<files, hook, kept, service, gens, writer>>
  BY DEF LinkStep, Publish, Activate, DropCurrent, Quarantine, DeleteQuarantined, RestoreVersion,
         RemoveRelease, RestoreReleases, FaultPublished, FaultSwitched, FaultDropped
<1>3. \/ mine' = mine
      \/ mine' = [mine EXCEPT !.release = target \notin releases]
      \/ \E l \in {NoLink, current'} : mine' = [mine EXCEPT !.attempted = TRUE, !.link = l]
      \/ mine' = [mine EXCEPT !.dropped = TRUE]
  BY DEF LinkStep, Publish, Activate, DropCurrent, Quarantine, DeleteQuarantined, RestoreVersion,
         RemoveRelease, RestoreReleases, FaultPublished, FaultSwitched, FaultDropped
<1>4. writer = NoWriter
  BY <1>1, WriterRests DEF Passing
<1>5. mine \in Memories
  BY DEF Base, Typed
<1>. QED BY <1>1, <1>2, <1>3, <1>4, <1>5 DEF Memories

\* A step of the files leaves the link, the releases, the hooks and the service alone.
LEMMA FileKind ==
  ASSUME Base, FileStep
  PROVE  /\ Passing(FileSteps) /\ writer = NoWriter
         /\ UNCHANGED <<current, releases, quarantined, hook, kept, service, writer, links>>
         /\ mine'.link = mine.link /\ mine'.hook = mine.hook /\ mine'.noted = mine.noted
         /\ mine'.release = mine.release /\ mine'.attempted = mine.attempted
         /\ mine'.stopped = mine.stopped /\ mine'.dropped = mine.dropped
         /\ torn' \in {torn, torn \cup {"action"}}
<1>1. Passing(FileSteps) /\ Head(todo) \notin HookSteps
  <2>1. CASE FaultAtTheEnd
    BY <2>1, EndMoves DEF FaultAtTheEnd, Doing, Passing, Running, Names, HookSteps
  <2>2. CASE ~FaultAtTheEnd
    BY <2>2, WriteFileWay, WriteActionWay, UnlinkFileWay, RestoreFileWay, WithdrawActionWay, FaultInActionWay,
       FaultUnlinkedWay DEF FileStep, Passing, FileSteps, HookSteps
  <2>. QED BY <2>1, <2>2
<1>2. UNCHANGED <<current, releases, quarantined, hook, kept, service, writer, links>>
  BY DEF FileStep, WriteFile, WriteAction, UnlinkFile, RestoreFile, WithdrawAction, FaultInAction,
         FaultUnlinked, FaultAtTheEnd
<1>3. \/ mine' = mine
      \/ mine' = [mine EXCEPT !.gen = gens + 1, !.pending = Doing("pending") \/ mine.pending]
      \/ mine' = [mine EXCEPT !.gen = gens + 1]
      \/ \E f \in {FileOrder[i] : i \in Present} \cup {"action"} : mine' = [mine EXCEPT !.spared = f]
  <2>1. CASE FaultInAction
    BY <2>1 DEF FaultInAction
  <2>2. CASE FaultUnlinked
    BY <2>2 DEF FaultUnlinked
  <2>3. CASE ~FaultInAction /\ ~FaultUnlinked
    BY <2>3 DEF FileStep, WriteFile, WriteAction, UnlinkFile, RestoreFile, WithdrawAction, FaultAtTheEnd
  <2>. QED BY <2>1, <2>2, <2>3
<1>4. writer = NoWriter
  BY <1>1, WriterRests DEF Passing
<1>5. mine \in Memories
  BY DEF Base, Typed
<1>6. /\ mine'.link = mine.link /\ mine'.hook = mine.hook /\ mine'.noted = mine.noted
      /\ mine'.release = mine.release /\ mine'.attempted = mine.attempted
      /\ mine'.stopped = mine.stopped /\ mine'.dropped = mine.dropped
  BY <1>3, <1>5 DEF Memories
<1>7. torn' \in {torn, torn \cup {"action"}}
  BY TornStays DEF FileStep, WriteFile, WriteAction, UnlinkFile, RestoreFile, WithdrawAction, FaultInAction,
         FaultUnlinked, FaultAtTheEnd
<1>. QED BY <1>1, <1>2, <1>4, <1>6, <1>7

\* A step of the service leaves everything else on the disk alone.
LEMMA ServiceKind ==
  ASSUME Base, ServiceStep
  PROVE  /\ Passing(ServiceSteps) /\ writer = NoWriter
         /\ UNCHANGED <<current, releases, quarantined, files, hook, kept, writer, links, gens>>
         /\ mine'.link = mine.link /\ mine'.hook = mine.hook /\ mine'.noted = mine.noted
         /\ mine'.release = mine.release /\ mine'.attempted = mine.attempted
         /\ mine'.pending = mine.pending /\ mine'.dropped = mine.dropped
         /\ mine'.spared = mine.spared /\ mine'.gen = mine.gen
         /\ torn' \in {torn, torn \cup {"service"}}
<1>1. Passing(ServiceSteps) /\ Head(todo) \notin HookSteps
  BY StartServiceWay, RestartServiceWay, BootoutWay, FaultStoppedWay
     DEF ServiceStep, Passing, ServiceSteps, HookSteps
<1>2. UNCHANGED <<current, releases, quarantined, files, hook, kept, writer, links, gens>>
  BY DEF ServiceStep, StartService, RestartService, Bootout, FaultStopped
<1>3. /\ mine' = mine \/ mine' = [mine EXCEPT !.stopped = service # None]
      /\ torn' \in {torn, torn \cup {"service"}}
  BY TornStays DEF ServiceStep, StartService, RestartService, Bootout, FaultStopped
<1>4. writer = NoWriter
  BY <1>1, WriterRests DEF Passing
<1>5. mine \in Memories
  BY DEF Base, Typed
<1>. QED BY <1>1, <1>2, <1>3, <1>4, <1>5 DEF Memories

\* The others change copies at most.
LEMMA OtherKind ==
  ASSUME Base, OtherStep
  PROVE  /\ Passing(OtherSteps) /\ writer = NoWriter
         /\ UNCHANGED <<current, releases, quarantined, files, hook, service, writer, mine, links, gens, torn>>
<1>1. Passing(OtherSteps) /\ (Head(todo) \notin HookSteps \/ writer.at = "idle")
  <2>1. CASE Smoke
    BY <2>1, SmokeWay DEF Passing, OtherSteps, HookSteps
  <2>2. CASE FaultInCleanup
    BY <2>2, FaultInCleanupWay DEF Passing, FaultInCleanup
  <2>3. CASE ForgetBackup
    BY <2>3, ForgetBackupWay DEF Passing, OtherSteps, HookSteps
  <2>. QED BY <2>1, <2>2, <2>3 DEF OtherStep
<1>2. UNCHANGED <<current, releases, quarantined, files, hook, service, writer, mine, links, gens, torn>>
  BY TornStays DEF OtherStep, Smoke, FaultInCleanup, ForgetBackup, disk
<1>3. writer = NoWriter
  BY <1>1, WriterRests DEF Passing, Base, Writing
<1>. QED BY <1>1, <1>2, <1>3

\* A first run that fails in a write of its own reports it.
LEMMA FaultKind ==
  ASSUME Base, Fault
  PROVE  /\ Running /\ Moves /\ Turns /\ writer' = NoWriter
         /\ writer.at \in {"idle", "exchange", "plain", "note"}
         /\ UNCHANGED <<current, releases, quarantined, hook, kept, links, gens, torn>>
         /\ files' \in {files, Written(Head(todo))}
         /\ mine'.link = mine.link /\ mine'.release = mine.release
         /\ mine'.pending = mine.pending /\ mine'.stopped = mine.stopped
         /\ mine'.dropped = mine.dropped /\ mine'.gen = mine.gen
         /\ IF cmd = "first" /\ Head(todo) # "service"
            THEN /\ Head(todo) \in {"config", "hooks", "agent", "done"}
                 /\ errors' = TRUE /\ conflicted' = TRUE
            ELSE mine'.spared = mine.spared
         /\ \/ mine'.hook = mine.hook /\ mine'.noted = mine.noted
            \/ cmd = "install" /\ mine'.hook = hook /\ mine'.noted = TRUE
         /\ service' = service \/ (Head(todo) = "service" /\ service' \in {None, target})
<1>1. Running /\ Moves /\ Turns /\ cleaning = FALSE
  BY FaultWay
<1>2. /\ UNCHANGED <<current, releases, quarantined, hook, kept, links, gens, torn>> /\ writer' = NoWriter
      /\ writer.at \in {"idle", "exchange", "plain", "note"} /\ files' \in {files, Written(Head(todo))}
      /\ service' = service \/ (Head(todo) = "service" /\ service' \in {None, target})
  BY DEF Fault, Doing
<1>3. Doing("service") <=> Head(todo) = "service"
  BY <1>1 DEF Doing, Running, Names
<1>4. mine \in Memories
  BY DEF Base, Typed
<1>5. CASE cmd = "first" /\ Head(todo) # "service"
  <2>1. Head(todo) \in {"config", "hooks", "agent", "done"}
    BY <1>1, <1>5, GoesOnHead, Heads DEF Base, Running
  <2>2. mine' = [mine EXCEPT !.spared = IF Doing("done") THEN "action" ELSE Head(todo)]
    BY <1>3, <1>5 DEF Fault
  <2>3. errors' = TRUE /\ conflicted' = TRUE
    BY <1>1, <1>5 DEF Turns
  <2>4. /\ mine'.link = mine.link /\ mine'.release = mine.release
        /\ mine'.pending = mine.pending /\ mine'.stopped = mine.stopped
        /\ mine'.dropped = mine.dropped /\ mine'.gen = mine.gen
        /\ mine'.hook = mine.hook /\ mine'.noted = mine.noted
    BY <1>4, <2>2 DEF Memories
  <2>. QED BY <1>1, <1>2, <1>5, <2>1, <2>3, <2>4
<1>6. CASE ~(cmd = "first" /\ Head(todo) # "service")
  <2>1. \/ mine' = [mine EXCEPT !.attempted = @ \/ Doing("activate")]
        \/ mine' = mine
        \/ cmd = "install" /\ mine' = [mine EXCEPT !.hook = hook, !.noted = TRUE]
    BY <1>3, <1>6 DEF Fault, NotingFailure, Noting
  <2>2. /\ mine'.link = mine.link /\ mine'.release = mine.release
        /\ mine'.pending = mine.pending /\ mine'.stopped = mine.stopped
        /\ mine'.dropped = mine.dropped /\ mine'.gen = mine.gen /\ mine'.spared = mine.spared
    BY <1>4, <2>1 DEF Memories
  <2>3. \/ mine'.hook = mine.hook /\ mine'.noted = mine.noted
        \/ cmd = "install" /\ mine'.hook = hook /\ mine'.noted = TRUE
    BY <1>4, <2>1 DEF Memories
  <2>. QED BY <1>1, <1>2, <1>6, <2>2, <2>3
<1>. QED BY <1>5, <1>6

-----------------------------------------------------------------------------
(* The managed files *)

FilesFrom == {"config", "launcher", "agent", "state", "unlink", "files", "unpend"}

\* Files as they were found are put back.
LEMMA SameFiles ==
  ASSUME Base, files = before.files
  PROVE  files = [before.files EXCEPT !.action = files.action]
BY DEF Base, Typed, Files

\* A step that leaves the files alone.
LEMMA FilesFrame ==
  ASSUME Base, FilesInv, NEW S, Passing(S), S \cap FilesFrom = {},
         files' = files, mine'.gen = mine.gen,
         mine'.spared = mine.spared \/ (cmd = "first" /\ Turns /\ errors' = TRUE)
  PROVE  FilesInv'
<1>1. UNCHANGED <<cmd, target, before>> /\ Running
  BY DEF Passing, Moves, Steady
<1>. USE DEF Owned, PutBack
<1>2. CASE Stays \/ (Goes /\ Head(todo) \in S) \/ Skips \/ Late
  <2>1. cleaning' = cleaning /\ (cleaning => errors' = errors) /\ torn' = torn
    BY <1>2 DEF Stays, Goes, Skips, Late, Ongoing
  <2>2. \A x \in FilesFrom : x \in Left => x \in Left'
    BY <1>2 DEF Stays, Goes, Skips, Late, FilesFrom
  <2>3. mine'.spared = mine.spared
    BY <1>2, <2>1 DEF Turns
  <2>. QED BY <1>1, <2>1, <2>2, <2>3 DEF FilesInv, Past, FilesFrom
<1>3. CASE Turns
  <2>1. CASE mine'.spared = mine.spared
    <3>1. files = before.files => files = [before.files EXCEPT !.action = files.action]
      BY SameFiles
    <3>2. /\ cleaning = FALSE /\ cleaning' = TRUE /\ torn \subseteq torn'
          /\ cmd # "hooks" => "files" \in Left'
          /\ cmd \in Withdrawing => "unpend" \in Left'
      BY <1>1, <1>3, TurnItems DEF Turns, Past
    <3>3. mine.spared = "none"
      BY <1>1, <3>2 DEF FilesInv, Running, Names
    <3>. QED BY <1>1, <2>1, <3>1, <3>2, <3>3 DEF FilesInv, Past, Running, Names, Withdrawing
  <2>2. CASE cmd = "first" /\ errors' = TRUE
    BY <1>1, <1>3, <2>2 DEF FilesInv, Turns, Withdrawing
  <2>. QED BY <2>1, <2>2
<1>4. CASE Reports
  <2>1. mine'.spared = mine.spared
    BY <1>4 DEF Reports, Turns
  <2>. QED BY <1>1, <1>4, <2>1 DEF FilesInv, Reports
<1>. QED BY <1>2, <1>3, <1>4 DEF Passing

\* A written file is what its step promises (config, launcher, agent, state).
LEMMA WriteFileFiles ==
  ASSUME Base, FilesInv, WriteFile PROVE FilesInv'
<1>1. /\ Running /\ cleaning = FALSE /\ cleaning' = FALSE /\ Left' = Left \ {Head(todo)}
      /\ Head(todo) \in {"config", "launcher", "agent", "state"}
      /\ UNCHANGED <<cmd, target, before, mine, torn>>
  BY WriteFileWay DEF Moves, Steady, Goes, Ongoing, WriteFile
<1>2. cmd \notin {"hooks", "uninstall"}
  BY <1>1, GoesOnHead, Heads DEF Base, Running
<1>3. files \in Files
  BY DEF Base, Typed
<1>4. files' = Written(Head(todo))
  BY DEF WriteFile, Doing
<1>5. cmd \in Managing => NewAgent # "absent"
  BY DEF NewAgent, Managing
<1>6. /\ files'.config.version = IF Head(todo) = "config" THEN target ELSE files.config.version
      /\ files'.launcher = IF Head(todo) = "launcher" THEN TRUE ELSE files.launcher
      /\ files'.agent = IF Head(todo) = "agent" THEN NewAgent ELSE files.agent
      /\ files'.state.current = IF Head(todo) = "state" THEN target ELSE files.state.current
      /\ files'.action = files.action
  <2>1. CASE Head(todo) = "config"
    BY <1>3, <1>4, <2>1 DEF Written, Files, NewConfig
  <2>2. CASE Head(todo) = "launcher"
    BY <1>3, <1>4, <2>2 DEF Written, Files
  <2>3. CASE Head(todo) = "agent"
    BY <1>3, <1>4, <2>3 DEF Written, Files
  <2>4. CASE Head(todo) = "state"
    BY <1>3, <1>4, <2>4 DEF Written, Files, NewState
  <2>. QED BY <1>1, <2>1, <2>2, <2>3, <2>4
<1>. QED BY <1>1, <1>2, <1>5, <1>6 DEF FilesInv, Past, Owned

\* A new action file leaves the others as they are.
LEMMA NewActionFiles ==
  ASSUME Base, NewAction
  PROVE  /\ files'.config = files.config /\ files'.launcher = files.launcher
         /\ files'.agent = files.agent /\ files'.state = files.state
         /\ files'.action.gen = gens + 1 /\ gens + 1 # 0
BY DEF NewAction, Base, Typed, Files

\* The action file is none of the files a later step relies on.
LEMMA WriteActionFiles ==
  ASSUME Base, FilesInv, WriteAction PROVE FilesInv'
<1>1. /\ Running /\ cleaning = FALSE /\ cleaning' = FALSE /\ Left' = Left \ {Head(todo)}
      /\ Head(todo) \in {"pending", "done"} /\ UNCHANGED <<cmd, target, before, torn>>
  BY WriteActionWay DEF Moves, Steady, Goes, Ongoing
<1>2. cmd \notin {"hooks", "uninstall"}
  BY <1>1, GoesOnHead, Heads DEF Base, Running
<1>3. /\ mine'.spared = mine.spared /\ mine'.gen = gens + 1
  BY DEF WriteAction, Base, Typed, Memories
<1>4. NewAction
  BY DEF WriteAction
<1>. QED BY <1>1, <1>2, <1>3, <1>4, NewActionFiles DEF FilesInv, Past, Owned

\* Withdrawn if it is a pending one of start, spared by a first run and left by install.
LEMMA FaultInActionFiles ==
  ASSUME Base, FilesInv, FaultInAction PROVE FilesInv' /\ files'.state = files.state
<1>1. Running /\ Turns /\ cleaning = FALSE /\ Head(todo) \in {"pending", "done"} /\ UNCHANGED <<cmd, target, before>>
  BY FaultInActionWay DEF Moves, Steady
<1>2. cmd \in {"install", "start", "first"}
  <2>1. Doing("pending") => cmd \in {"install", "start"}
    BY <1>1, GoesOnHead, Heads DEF Base, Running, Names, Doing
  <2>. QED BY <2>1 DEF FaultInAction
<1>3. NewAction
  BY DEF FaultInAction
<1>4. cleaning' = TRUE /\ "files" \in Left' /\ (cmd \in Withdrawing => "unpend" \in Left')
  BY <1>1, <1>2, TurnItems DEF Turns, Past
<1>5. CASE cmd = "install"
  <2>1. mine' = mine /\ "action" \in torn'
    BY <1>5 DEF FaultInAction
  <2>. QED BY <1>1, <1>3, <1>4, <1>5, <2>1, NewActionFiles DEF FilesInv, Past
<1>6. CASE cmd = "start"
  <2>1. mine'.gen = gens + 1 /\ mine'.spared = mine.spared
    BY <1>6 DEF FaultInAction, Base, Typed, Memories
  <2>. QED BY <1>1, <1>3, <1>4, <1>6, <2>1, NewActionFiles DEF FilesInv, Past, Owned
<1>7. CASE cmd = "first"
  <2>1. errors' = TRUE
    <3>1. Head(todo) # "service"
      BY <1>1
    <3>. QED BY <1>1, <1>7, <3>1 DEF Turns
  <2>. QED BY <1>1, <1>3, <1>4, <1>7, <2>1, NewActionFiles DEF FilesInv, Past, Withdrawing
<1>. QED BY <1>2, <1>5, <1>6, <1>7, <1>3, NewActionFiles

\* The action file written in the end is none of the files that matter either.
LEMMA FaultAtTheEndFiles ==
  ASSUME Base, FilesInv, FaultAtTheEnd PROVE FilesInv' /\ files'.state = files.state
<1>1. /\ cleaning = FALSE /\ cleaning' = FALSE /\ Left' = Left \ {"done"}
      /\ cmd \in {"update", "rollback", "repair"} /\ UNCHANGED <<cmd, target, before, torn>>
  BY EndMoves DEF Moves, Steady, Late
<1>2. mine' = mine /\ (NewAction \/ files' = files)
  BY DEF FaultAtTheEnd
<1>3. /\ files'.config = files.config /\ files'.launcher = files.launcher
      /\ files'.agent = files.agent /\ files'.state = files.state
  BY <1>2, NewActionFiles
<1>. QED BY <1>1, <1>2, <1>3 DEF FilesInv, Past, Withdrawing

\* Uninstall goes on when no managed file is left.
LEMMA UnlinkFileFiles ==
  ASSUME Base, FilesInv, UnlinkFile PROVE FilesInv' /\ files'.state \in {files.state, NoFiles.state}
<1>. USE DEF Unlink
<1>1. /\ Running /\ cleaning = FALSE /\ cleaning' = FALSE /\ Head(todo) = "unlink"
      /\ UNCHANGED <<cmd, target, before, mine>>
  BY UnlinkFileWay DEF Moves, Steady, Goes, Stays, Ongoing, UnlinkFile
<1>2. cmd = "uninstall"
  BY <1>1, GoesOnHead, Heads DEF Base, Running, Names
<1>3. files \in Files /\ NoFiles \in Files
  BY NonesTyped DEF Base, Typed
<1>4. files'.state \in {files.state, NoFiles.state}
  <2>1. ASSUME NEW i \in Present, files' = [files EXCEPT ![FileOrder[i]] = NoFiles[FileOrder[i]]]
        PROVE  files'.state \in {files.state, NoFiles.state}
    BY <1>3, <2>1 DEF Files
  <2>. QED BY <2>1 DEF UnlinkFile
<1>5. "unlink" \in Left' \/ files' = NoFiles
  <2>1. CASE Present = {}
    <3>1. \A i \in 1 .. 5 : files[FileOrder[i]] = NoFiles[FileOrder[i]]
      BY <2>1 DEF Present, FileOrder
    <3>2. /\ FileOrder[1] = "agent" /\ FileOrder[2] = "launcher" /\ FileOrder[3] = "config"
          /\ FileOrder[4] = "state" /\ FileOrder[5] = "action"
      BY DEF FileOrder
    <3>3. /\ files.agent = NoFiles.agent /\ files.launcher = NoFiles.launcher
          /\ files.config = NoFiles.config /\ files.state = NoFiles.state
          /\ files.action = NoFiles.action
      BY <3>1, <3>2
    <3>4. files = NoFiles
      BY <1>3, <3>3 DEF Files
    <3>. QED BY <2>1, <3>4 DEF UnlinkFile
  <2>2. CASE Present # {}
    <3>1. Stays
      BY <1>1, <2>2, Repeating DEF UnlinkFile
    <3>. QED BY <1>1, <3>1, GoesOnHead DEF Stays
  <2>. QED BY <2>1, <2>2
<1>. QED BY <1>1, <1>2, <1>4, <1>5 DEF FilesInv, Past, Managing, Withdrawing

\* A file that uninstall unlinked unnoted is spared.
LEMMA FaultUnlinkedFiles ==
  ASSUME Base, FilesInv, FaultUnlinked PROVE FilesInv' /\ files'.state \in {files.state, NoFiles.state}
<1>1. Running /\ Turns /\ cleaning = FALSE /\ Head(todo) = "unlink" /\ UNCHANGED <<cmd, target, before>>
  BY FaultUnlinkedWay DEF Moves, Steady
<1>2. cmd = "uninstall"
  BY <1>1, GoesOnHead, Heads DEF Base, Running, Names
<1>3. files'.state \in {files.state, NoFiles.state}
  <2>1. ASSUME NEW i \in Present, files' = [files EXCEPT ![FileOrder[i]] = NoFiles[FileOrder[i]]]
        PROVE  files'.state \in {files.state, NoFiles.state}
    BY <2>1, NonesTyped DEF Base, Typed, Files
  <2>. QED BY <2>1 DEF FaultUnlinked, Unlink
<1>4. cleaning' = TRUE /\ "files" \in Left'
  BY <1>1, <1>2, TurnItems DEF Turns, Past
<1>. QED BY <1>1, <1>2, <1>3, <1>4 DEF FilesInv, Past, Withdrawing

\* The files are put back one by one, until none differs.
LEMMA RestoreFileFiles ==
  ASSUME Base, FilesInv, RestoreFile
  PROVE  FilesInv' /\ files'.state \in {files.state, before.files.state}
<1>1. /\ Running /\ cleaning = TRUE /\ cleaning' = TRUE /\ Head(todo) = "files"
      /\ UNCHANGED <<cmd, target, before, mine, torn>>
  <2>1. torn' = torn
    BY TornStays DEF RestoreFile
  <2>. QED BY <2>1, RestoreFileWay DEF Moves, Steady, Goes, Stays, Reports, Ongoing, RestoreFile
<1>2. cmd # "hooks"
  BY <1>1, GoesOnHead, Heads DEF Base, Running
<1>3. files \in Files /\ before.files \in Files
  BY DEF Base, Typed, Snapshots
<1>5. files'.state \in {files.state, before.files.state}
  <2>1. files' = files \/ \E f \in DOMAIN files : files' = [files EXCEPT ![f] = before.files[f]]
    BY DEF RestoreFile
  <2>. QED BY <1>3, <2>1 DEF Files
<1>6. cmd \in Withdrawing => files'.action = files.action
  <2>. SUFFICES ASSUME cmd \in Withdrawing PROVE files'.action = files.action
    OBVIOUS
  <2>1. \/ files' = files
        \/ \E f \in DOMAIN files \ {"action"} : files' = [files EXCEPT ![f] = before.files[f]]
    BY DEF RestoreFile, Withdrawing
  <2>. QED BY <1>3, <2>1 DEF Files
<1>7. CASE Reports
  BY <1>1, <1>2, <1>5, <1>6, <1>7 DEF FilesInv, Reports, Owned
<1>8. CASE Stays
  <2>1. errors' = errors /\ "files" \in Left' /\ Left' = Left
    BY <1>1, <1>8, GoesOnHead DEF Stays, Ongoing
  <2>. QED BY <1>1, <1>2, <1>5, <1>6, <2>1 DEF FilesInv, Past, Owned
<1>9. CASE Goes /\ ~Reports
  <2>. DEFINE mending == DOMAIN files \ ({mine.spared} \cup
                             IF cmd \in {"install", "start"} THEN {"action"} ELSE {})
              changed == {f \in mending : files[f] # before.files[f]}
  <2>1. Left' = Left \ {"files"} /\ errors' = errors
    BY <1>1, <1>9 DEF Goes, Ongoing
  <2>2. changed = {} /\ files' = files /\ (cmd = "uninstall" => mine.spared = "none")
    <3>1. ~Repeat
      <4>1. Repeat => "files" \in Left'
        BY <1>1, Repeating, GoesOnHead DEF Stays
      <4>. QED BY <2>1, <4>1
    <3>2. ~Conflict
      BY <1>1, <1>9, Conflicting DEF Turns
    <3>. QED BY <3>1, <3>2 DEF RestoreFile
  <2>3. errors = FALSE => mine.spared = "none"
    BY <1>1, <2>2 DEF FilesInv, Running, Names
  <2>4. errors = FALSE => PutBack
    <3>. SUFFICES ASSUME mine.spared = "none" PROVE PutBack
      BY <2>3
    <3>1. DOMAIN files = {"config", "launcher", "agent", "state", "action"}
      BY <1>3 DEF Files
    <3>2. \A f \in {"config", "launcher", "agent", "state"} : files[f] = before.files[f]
      BY <2>2, <3>1
    <3>3. cmd \notin Withdrawing => files.action = before.files.action
      BY <2>2, <3>1 DEF Withdrawing
    <3>4. files = [before.files EXCEPT !.action = files.action]
      BY <1>3, <3>2 DEF Files
    <3>. QED BY <3>3, <3>4 DEF PutBack
  <2>. QED BY <1>1, <1>2, <2>1, <2>2, <2>3, <2>4 DEF FilesInv, Past, Owned, PutBack, Base, Typed
<1>. QED BY <1>5, <1>7, <1>8, <1>9, RestoreFileWay

\* Withdrawing the action undoes no file that was put back.
LEMMA WithdrawActionFiles ==
  ASSUME Base, FilesInv, WithdrawAction PROVE FilesInv' /\ files'.state = files.state
<1>1. /\ Running /\ cleaning = TRUE /\ cleaning' = TRUE /\ errors' = errors /\ Head(todo) = "unpend"
      /\ Left' = Left \ {"unpend"} /\ UNCHANGED <<cmd, target, before, mine, torn>>
  BY WithdrawActionWay DEF Moves, Steady, Goes, Ongoing, WithdrawAction
<1>2. cmd \in Withdrawing /\ cmd \notin {"hooks", "uninstall", "first"}
  BY <1>1, GoesOnHead, Heads DEF Base, Running, Names, Withdrawing
<1>3. files \in Files /\ before.files \in Files
  BY DEF Base, Typed, Snapshots
<1>4. \/ files' = files /\ ~(mine.gen # 0 /\ files.action.gen = mine.gen)
      \/ files' = [files EXCEPT !.action = before.files.action]
  BY DEF WithdrawAction
<1>5. files'.state = files.state /\ files' = [files EXCEPT !.action = files'.action]
  BY <1>3, <1>4 DEF Files
<1>6. "action" \notin torn => files'.action = before.files.action
  BY <1>1, <1>2, <1>3, <1>4 DEF FilesInv, Owned, Running, Names, Files
<1>7. PutBack => PutBack'
  BY <1>1, <1>2, <1>3, <1>5 DEF PutBack, Files
<1>. QED BY <1>1, <1>2, <1>5, <1>6, <1>7 DEF FilesInv, Past, Owned

\* A failed step may have written its file; a first run spares that file and reports it.
LEMMA FaultFiles ==
  ASSUME Base, FilesInv, Fault
  PROVE  /\ FilesInv'
         /\ \/ files'.state = files.state
            \/ files'.state = NewState /\ cmd \in Managing /\ cleaning = FALSE /\ Head(todo) = "state"
<1>1. /\ Running /\ Turns /\ cleaning = FALSE /\ UNCHANGED <<cmd, target, before, torn>>
      /\ files' \in {files, Written(Head(todo))} /\ mine'.gen = mine.gen
  BY FaultKind, FaultWay DEF Moves, Steady
<1>2. files \in Files
  BY DEF Base, Typed
<1>3. files'.action = files.action /\ (files'.state = files.state \/ (Head(todo) = "state" /\ files'.state = NewState))
  BY <1>1, <1>2 DEF Written, Files
<1>4. Head(todo) = "state" => cmd \in Managing
  BY <1>1, GoesOnHead, Heads DEF Base, Running, Names, Managing
<1>5. cmd \in {"hooks", "uninstall"} => files' = files
  BY <1>1, GoesOnHead, Heads DEF Base, Running, Written
<1>6. cleaning' = TRUE /\ (cmd # "hooks" => "files" \in Left') /\ (cmd \in Withdrawing => "unpend" \in Left')
  BY <1>1, TurnItems DEF Turns, Past
<1>7. CASE cmd = "first" /\ Head(todo) # "service"
  <2>1. errors' = TRUE
    BY <1>7, FaultKind
  <2>. QED BY <1>1, <1>3, <1>4, <1>5, <1>6, <1>7, <2>1 DEF FilesInv, Past, Withdrawing
<1>8. CASE ~(cmd = "first" /\ Head(todo) # "service")
  <2>1. mine'.spared = mine.spared
    BY <1>8, FaultKind
  <2>2. mine.spared = "none"
    BY <1>1 DEF FilesInv, Running, Names
  <2>3. cmd = "hooks" => files' = before.files
    BY <1>1, <1>5 DEF FilesInv, Running, Names
  <2>4. cmd = "hooks" => PutBack'
    BY <1>1, <2>3, SameFiles DEF PutBack, Withdrawing, Base, Typed, Snapshots, Files
  <2>5. cmd \in Withdrawing /\ "action" \notin torn => Owned'
    BY <1>1, <1>3 DEF FilesInv, Owned, Running, Names
  <2>. QED BY <1>1, <1>3, <1>4, <1>5, <1>6, <2>1, <2>2, <2>3, <2>4, <2>5 DEF FilesInv, Past, Withdrawing
<1>. QED BY <1>7, <1>8

\* Every step keeps the invariant of the managed files.
LEMMA StepFiles == ASSUME Base, FilesInv, Step PROVE FilesInv'
<1>1. CASE HookStep
  <2>1. HookSteps \cap FilesFrom = {}
    BY DEF HookSteps, FilesFrom
  <2>. QED BY <1>1, <2>1, HookKind, FilesFrame DEF Recalling
<1>2. CASE LinkStep
  <2>1. LinkSteps \cap FilesFrom = {}
    BY DEF LinkSteps, FilesFrom
  <2>. QED BY <1>2, <2>1, LinkKind, FilesFrame
<1>3. CASE ServiceStep
  <2>1. ServiceSteps \cap FilesFrom = {}
    BY DEF ServiceSteps, FilesFrom
  <2>. QED BY <1>3, <2>1, ServiceKind, FilesFrame
<1>4. CASE OtherStep
  <2>1. OtherSteps \cap FilesFrom = {}
    BY DEF OtherSteps, FilesFrom
  <2>. QED BY <1>4, <2>1, OtherKind, FilesFrame
<1>5. CASE FileStep
  BY <1>5, WriteFileFiles, WriteActionFiles, UnlinkFileFiles, RestoreFileFiles, WithdrawActionFiles,
     FaultInActionFiles, FaultUnlinkedFiles, FaultAtTheEndFiles DEF FileStep
<1>6. CASE Fault
  BY <1>6, FaultFiles
<1>. QED BY <1>1, <1>2, <1>3, <1>4, <1>5, <1>6, StepKinds

-----------------------------------------------------------------------------
(* The link *)

LinkFrom == {"activate", "drop", "version"}

\* What is torn is not a link.
SameLinks == \A x \in {"link", "dangling"} : x \in torn' <=> x \in torn

\* A step that leaves the link alone.
LEMMA CurrentFrame ==
  ASSUME Base, CurrentInv, NEW S, Passing(S), S \cap LinkFrom = {},
         current' = current, mine'.link = mine.link, mine'.dropped = mine.dropped, SameLinks
  PROVE  CurrentInv'
<1>1. UNCHANGED <<cmd, target, before>> /\ Running /\ Meddled' = Meddled /\ Unknown' = Unknown
  BY DEF Passing, Moves, Steady, Meddled, Unknown, SameLinks
<1>. USE DEF SameLinks
<1>2. CASE Stays \/ (Goes /\ Head(todo) \in S) \/ Late
  <2>1. cleaning' = cleaning /\ (cleaning => errors' = errors)
    BY <1>2 DEF Stays, Goes, Late, Ongoing
  <2>2. \A x \in LinkFrom : x \in Left <=> x \in Left'
    BY <1>2 DEF Stays, Goes, Late, LinkFrom
  <2>. QED BY <1>1, <2>1, <2>2 DEF CurrentInv, Past, LinkFrom
<1>3. CASE Skips
  <2>1. cleaning' = cleaning /\ errors' = errors /\ cleaning /\ cmd = "update" /\ mine.link = NoLink
    BY <1>3 DEF Skips, Ongoing
  <2>. QED BY <1>1, <2>1 DEF CurrentInv, Switching
<1>4. CASE Turns
  BY <1>1, <1>4, TurnItems DEF CurrentInv, Turns, Running, Names
<1>5. CASE Reports
  BY <1>1, <1>5 DEF CurrentInv, Reports
<1>. QED BY <1>2, <1>3, <1>4, <1>5 DEF Passing

\* The exchange of the link records what it made.
LEMMA ActivateCurrent ==
  ASSUME Base, CurrentInv, Activate PROVE CurrentInv'
<1>1. /\ Running /\ cleaning = FALSE /\ Head(todo) = "activate" /\ (Goes \/ Turns)
      /\ UNCHANGED <<cmd, target, before, torn>> /\ Meddled' = Meddled /\ Unknown' = Unknown
  <2>1. torn' = torn
    BY TornStays DEF Activate, Exchange
  <2>. QED BY <2>1, ActivateWay DEF Moves, Steady, Meddled, Unknown
<1>2. cmd \in Switching /\ ~Past("activate")
  BY <1>1, GoesOnHead, Heads DEF Base, Running, Names, Switching, Past
<1>3. mine' = [mine EXCEPT !.attempted = TRUE, !.link = IF cleaning' THEN NoLink ELSE current']
  BY DEF Activate
<1>4. mine'.link = (IF cleaning' THEN NoLink ELSE current') /\ mine'.dropped = mine.dropped
  BY <1>3 DEF Base, Typed, Memories
<1>5. CASE Goes
  <2>1. cleaning' = FALSE /\ Left' = Left \ {"activate"}
    BY <1>1, <1>5 DEF Goes, Ongoing
  <2>2. current' = [to |-> target, id |-> links + 1]
    BY <1>1, <2>1 DEF Activate, Exchange, Switch, Conflict, Failing
  <2>3. current'.to = target /\ current' # NoLink
    <3>1. links + 1 # 0
      BY DEF Base, Typed
    <3>. QED BY <2>2, <3>1 DEF NoLink
  <2>. QED BY <1>1, <1>2, <1>4, <2>1, <2>3 DEF CurrentInv, Past, Switching
<1>6. CASE Turns
  <2>1. cleaning' = TRUE /\ current' = current
    BY <1>1, <1>6 DEF Turns, Activate, Exchange, Advance
  <2>2. mine'.link = NoLink /\ mine.link = NoLink
    BY <1>1, <1>2, <1>4, <2>1 DEF CurrentInv, Running, Names
  <2>3. Passing({})
    BY <1>6, ActivateWay DEF Passing
  <2>. QED BY <1>1, <1>4, <2>1, <2>2, <2>3, CurrentFrame DEF SameLinks
<1>. QED BY <1>1, <1>5, <1>6

\* Uninstall removes the link it found, and no other.
LEMMA DropCurrentCurrent ==
  ASSUME Base, CurrentInv, DropCurrent PROVE CurrentInv'
<1>1. /\ Running /\ cleaning = FALSE /\ Head(todo) = "drop" /\ (Goes \/ Turns)
      /\ UNCHANGED <<cmd, target, before, torn>> /\ Meddled' = Meddled /\ Unknown' = Unknown
  <2>1. torn' = torn
    BY TornStays DEF DropCurrent
  <2>. QED BY <2>1, DropCurrentWay DEF Moves, Steady, Meddled, Unknown
<1>2. cmd = "uninstall" /\ ~Past("drop")
  BY <1>1, GoesOnHead, Heads DEF Base, Running, Names, Past
<1>3. mine.link = NoLink /\ (~Unknown => ~mine.dropped /\ current = before.current)
  BY <1>1, <1>2 DEF CurrentInv, Switching
<1>4. CASE Goes
  <2>1. cleaning' = FALSE /\ Left' = Left \ {"drop"}
    BY <1>1, <1>4 DEF Goes, Ongoing
  <2>2. \/ before.current = NoLink /\ current' = current /\ mine' = mine
        \/ current' = NoLink /\ mine' = [mine EXCEPT !.dropped = TRUE]
    BY <1>1, <2>1 DEF DropCurrent, Conflict, Failing
  <2>3. mine'.link = NoLink /\ (mine'.dropped \/ (mine' = mine /\ before.current = NoLink))
    BY <1>3, <2>2 DEF Base, Typed, Memories
  <2>4. /\ ~Unknown => current' = NoLink
        /\ ~Meddled => current'.to \in {before.current.to, None}
    BY <1>2, <1>3, <2>2 DEF NoLink, CurrentInv
  <2>5. NoLink.to = None /\ "drop" \notin Left'
    BY <2>1 DEF NoLink
  <2>6. ~Unknown => (mine'.link = NoLink /\ ~mine'.dropped => current' = before.current)
    BY <2>3, <2>4
  <2>. QED BY <1>1, <1>2, <2>1, <2>3, <2>4, <2>5, <2>6 DEF CurrentInv, Past, Switching
<1>5. CASE Turns
  <2>1. current' = current /\ mine' = mine
    BY <1>1, <1>5 DEF Turns, DropCurrent, Advance
  <2>2. Passing({})
    BY <1>5, DropCurrentWay DEF Passing
  <2>. QED BY <1>1, <2>1, <2>2, CurrentFrame DEF SameLinks
<1>. QED BY <1>1, <1>4, <1>5

\* A switch that failed is noted as what the command made, or torn.
LEMMA FaultSwitchedCurrent ==
  ASSUME Base, CurrentInv, FaultSwitched PROVE CurrentInv'
<1>1. /\ Running /\ cleaning = FALSE /\ Head(todo) = "activate" /\ Turns
      /\ UNCHANGED <<cmd, target, before>> /\ Meddled' = Meddled
  BY FaultSwitchedWay DEF Moves, Steady, Meddled
<1>2. cmd \in Switching
  BY <1>1, GoesOnHead, Heads DEF Base, Running, Names, Switching
<1>3. cleaning' = TRUE /\ "version" \in Left'
  BY <1>1, <1>2, TurnItems DEF Turns, Past
<1>4. "link" \notin torn /\ ~mine.dropped
  BY <1>1, <1>2 DEF CurrentInv, Running, Names, Switching
<1>5. mine'.dropped = mine.dropped
  BY DEF FaultSwitched, Base, Typed, Memories
<1>6. CASE mine' = [mine EXCEPT !.attempted = TRUE, !.link = current'] /\ torn' = torn
  <2>1. mine'.link = current'
    BY <1>6 DEF Base, Typed, Memories
  <2>2. current' # NoLink
    <3>1. links + 1 # 0 /\ current' = [to |-> target, id |-> links + 1]
      BY DEF Base, Typed, FaultSwitched, Switch
    <3>. QED BY <3>1 DEF NoLink
  <2>. QED BY <1>1, <1>2, <1>3, <1>4, <1>5, <1>6, <2>1, <2>2 DEF CurrentInv, Past, Switching
<1>7. CASE /\ cmd # "install" /\ mine' = [mine EXCEPT !.attempted = TRUE, !.link = NoLink]
           /\ torn' = torn \cup {"link"} \cup (IF cmd = "update" THEN {"dangling"} ELSE {})
  <2>1. mine'.link = NoLink
    BY <1>7 DEF Base, Typed, Memories
  <2>2. current' \notin {NoLink, before.current}
    <3>1. current' = [to |-> target, id |-> links + 1] /\ before.current = current
      BY DEF FaultSwitched, Switch
    <3>2. current.id \in 0 .. links /\ links \in Nat
      BY DEF Base, Typed, Links
    <3>. QED BY <3>1, <3>2 DEF NoLink
  <2>. QED BY <1>1, <1>2, <1>3, <1>4, <1>5, <1>7, <2>1, <2>2
           DEF CurrentInv, Unknown, Publishing, Switching, Past
<1>. QED BY <1>6, <1>7 DEF FaultSwitched

\* A link that uninstall has removed unnoted is torn.
LEMMA FaultDroppedCurrent ==
  ASSUME Base, CurrentInv, FaultDropped PROVE CurrentInv'
<1>1. /\ Running /\ cleaning = FALSE /\ Head(todo) = "drop" /\ Turns
      /\ UNCHANGED <<cmd, target, before, mine>>
  BY FaultDroppedWay DEF Moves, Steady, FaultDropped
<1>2. cmd = "uninstall"
  BY <1>1, GoesOnHead, Heads DEF Base, Running, Names
<1>3. cleaning' = TRUE /\ "link" \in torn' /\ current'.to = None
  BY <1>1 DEF Turns, FaultDropped, NoLink
<1>. QED BY <1>1, <1>2, <1>3 DEF CurrentInv, Unknown, Publishing, Switching

\* How the cleanup leaves the link.
LEMMA RestoreVersionEnds ==
  ASSUME Base, RestoreVersion
  PROVE  \/ Skips /\ current' = current
         \/ Reports /\ current' = current
         \/ /\ Goes /\ current' = current
            /\ \/ current = before.current
               \/ cmd = "uninstall" /\ ~mine.dropped
               \/ cmd = "install" /\ current.to = before.current.to
         \/ /\ Goes /\ current' = NoLink /\ before.current = NoLink
            /\ cmd # "uninstall" /\ current # before.current
            /\ cmd = "install" \/ current = mine.link
         \/ /\ Goes /\ current' = [to |-> before.current.to, id |-> links + 1]
            /\ before.current.to \in releases /\ current # before.current
            /\ cmd = "uninstall" => mine.dropped
            /\ cmd \in {"install", "uninstall"} \/ current = mine.link
<1>1. Running /\ cleaning = TRUE /\ Head(todo) = "version"
  BY RestoreVersionWay
<1>2. Advance => Goes
  BY <1>1, Advancing
<1>3. Conflict => Reports
  BY <1>1, Conflicting DEF Turns
<1>4. CASE /\ cmd = "update" /\ mine.link = NoLink
           /\ ~(before.current # NoLink /\ mine.attempted /\ mine.stopped)
  <2>1. current' = current
    BY <1>4 DEF RestoreVersion
  <2>. QED BY <1>4, <2>1, SkipMoves
<1>5. CASE ~(/\ cmd = "update" /\ mine.link = NoLink
             /\ ~(before.current # NoLink /\ mine.attempted /\ mine.stopped))
  <2>1. CASE \/ current = before.current
             \/ cmd = "uninstall" /\ ~mine.dropped
             \/ cmd = "install" /\ current.to = before.current.to
    <3>1. current' = current /\ Advance
      BY <1>5, <2>1 DEF RestoreVersion
    <3>. QED BY <1>2, <2>1, <3>1
  <2>2. CASE ~(\/ current = before.current
               \/ cmd = "uninstall" /\ ~mine.dropped
               \/ cmd = "install" /\ current.to = before.current.to)
    <3>1. \/ current' = current /\ Conflict
          \/ /\ current' = NoLink /\ before.current = NoLink /\ cmd # "uninstall" /\ Advance
             /\ cmd = "install" \/ current = mine.link
          \/ /\ current' = [to |-> before.current.to, id |-> links + 1]
             /\ before.current.to \in releases /\ Advance
             /\ cmd \in {"install", "uninstall"} \/ current = mine.link
      BY <1>5, <2>2 DEF RestoreVersion, Exchange, Switch
    <3>. QED BY <1>2, <1>3, <2>2, <3>1
  <2>. QED BY <2>1, <2>2
<1>. QED BY <1>4, <1>5

\* The version found is in place again, or the failure is reported.
LEMMA RestoreVersionCurrent ==
  ASSUME Base, CurrentInv, RestoreVersion PROVE CurrentInv'
<1>1. /\ Running /\ Moves /\ cleaning = TRUE /\ Head(todo) = "version"
      /\ UNCHANGED <<cmd, target, before, torn>> /\ Meddled' = Meddled /\ Unknown' = Unknown
  <2>1. torn' = torn
    BY TornStays DEF RestoreVersion, Exchange
  <2>. QED BY <2>1, RestoreVersionWay DEF Moves, Steady, Meddled, Unknown
<1>2. mine' = mine
  BY DEF RestoreVersion
<1>3. CASE (Skips \/ Reports) /\ current' = current
  <2>1. Passing({})
    BY <1>1, <1>3 DEF Passing
  <2>. QED BY <1>1, <1>2, <1>3, <2>1, CurrentFrame DEF SameLinks
<1>4. CASE Goes /\ ~((Skips \/ Reports) /\ current' = current)
  <2>1. cleaning' = TRUE /\ errors' = errors
    BY <1>1, <1>4 DEF Goes, Ongoing
  <2>2. cmd \notin Switching => mine.link = NoLink
    BY <1>1 DEF CurrentInv, Running, Names
  <2>6. ~(cmd = "rollback" /\ "link" \in torn /\ ~Meddled)
    <3>. SUFFICES ASSUME cmd = "rollback", "link" \in torn, ~Meddled PROVE FALSE
      OBVIOUS
    <3>1. mine.link = NoLink /\ current \notin {NoLink, before.current}
      BY DEF CurrentInv
    <3>. QED BY <1>4, <3>1, RestoreVersionEnds
  <2>3. CASE /\ current' = current
             /\ \/ current = before.current
                \/ cmd = "uninstall" /\ ~mine.dropped
                \/ cmd = "install" /\ current.to = before.current.to
    <3>1. ~Unknown => current'.to = before.current.to
      BY <1>1, <2>2, <2>3 DEF CurrentInv, Switching, Running, Names
    <3>. QED BY <1>1, <1>2, <2>1, <2>3, <2>6, <3>1 DEF CurrentInv, Running, Names
  <2>4. CASE current' = NoLink /\ before.current = NoLink /\ cmd # "uninstall"
    BY <1>1, <1>2, <2>1, <2>4, <2>6 DEF CurrentInv
  <2>5. CASE /\ current' = [to |-> before.current.to, id |-> links + 1] /\ current # before.current
             /\ cmd = "uninstall" => mine.dropped
    <3>1. current'.to = before.current.to
      BY <2>5
    <3>2. ~Unknown => mine.link # NoLink \/ mine.dropped
      BY <1>1, <2>5 DEF CurrentInv, Running, Names
    <3>. QED BY <1>1, <1>2, <2>1, <2>6, <3>1, <3>2 DEF CurrentInv
  <2>. QED BY <1>1, <1>2, <2>1, <2>3, <2>4, <2>5, RestoreVersionEnds, <1>3
<1>. QED BY <1>3, <1>4, RestoreVersionEnds

\* Every step keeps the invariant of the link.
LEMMA StepCurrent == ASSUME Base, CurrentInv, Step PROVE CurrentInv'
<1>1. CASE HookStep
  <2>1. HookSteps \cap LinkFrom = {}
    BY DEF HookSteps, LinkFrom
  <2>. QED BY <1>1, <2>1, HookKind, CurrentFrame DEF Recalling, SameLinks
<1>2. CASE FileStep
  <2>1. FileSteps \cap LinkFrom = {}
    BY DEF FileSteps, LinkFrom
  <2>. QED BY <1>2, <2>1, FileKind, CurrentFrame DEF SameLinks
<1>3. CASE ServiceStep
  <2>1. ServiceSteps \cap LinkFrom = {}
    BY DEF ServiceSteps, LinkFrom
  <2>. QED BY <1>3, <2>1, ServiceKind, CurrentFrame DEF SameLinks
<1>4. CASE OtherStep
  <2>1. OtherSteps \cap LinkFrom = {}
    BY DEF OtherSteps, LinkFrom
  <2>. QED BY <1>4, <2>1, OtherKind, CurrentFrame DEF SameLinks
<1>5. CASE \/ Publish \/ Quarantine \/ DeleteQuarantined \/ RemoveRelease \/ RestoreReleases
           \/ FaultPublished
  <2>1. Passing(LinkSteps \ LinkFrom)
    BY <1>5, PublishWay, QuarantineWay, DeleteQuarantinedWay, RemoveReleaseWay, RestoreReleasesWay,
       FaultPublishedWay DEF Passing, LinkSteps, LinkFrom
  <2>2. /\ current' = current /\ torn' \in {torn, torn \cup {"release"}}
        /\ mine' = mine \/ mine' = [mine EXCEPT !.release = target \notin releases]
    BY <1>5, TornStays DEF Publish, Quarantine, DeleteQuarantined, RemoveRelease, RestoreReleases,
       FaultPublished
  <2>3. mine'.link = mine.link /\ mine'.dropped = mine.dropped
    BY <2>2 DEF Base, Typed, Memories
  <2>. QED BY <2>1, <2>2, <2>3, CurrentFrame DEF SameLinks
<1>6. CASE Fault
  <2>1. Passing({})
    BY <1>6, FaultKind DEF Passing
  <2>. QED BY <1>6, <2>1, FaultKind, CurrentFrame DEF SameLinks
<1>. QED BY <1>1, <1>2, <1>3, <1>4, <1>5, <1>6, StepKinds, ActivateCurrent, DropCurrentCurrent,
            FaultSwitchedCurrent, FaultDroppedCurrent, RestoreVersionCurrent DEF LinkStep

-----------------------------------------------------------------------------
(* The releases *)

ReleasesFrom == {"publish", "quarantine", "release", "unquarantine"}

\* A step that leaves the releases alone.
LEMMA ReleasesFrame ==
  ASSUME Base, ReleasesInv, NEW S, Passing(S), S \cap ReleasesFrom = {},
         releases' = releases, mine'.release = mine.release
  PROVE  ReleasesInv'
<1>1. UNCHANGED <<cmd, target, before>> /\ Running
  BY DEF Passing, Moves, Steady
<1>2. CASE Stays \/ (Goes /\ Head(todo) \in S) \/ Skips \/ Late
  <2>1. cleaning' = cleaning /\ (cleaning => errors' = errors) /\ torn' = torn
    BY <1>2 DEF Stays, Goes, Skips, Late, Ongoing
  <2>2. /\ \A x \in ReleasesFrom : x \in Left <=> x \in Left'
        /\ Left' \subseteq Left
    BY <1>2 DEF Stays, Goes, Skips, Late, ReleasesFrom
  <2>. QED BY <1>1, <2>1, <2>2 DEF ReleasesInv, Past, ReleasesFrom
<1>3. CASE Turns
  BY <1>1, <1>3, TurnItems DEF ReleasesInv, Turns, Running, Names
<1>4. CASE Reports
  BY <1>1, <1>4 DEF ReleasesInv, Reports
<1>. QED BY <1>2, <1>3, <1>4 DEF Passing

\* A release is remembered as published only when it was not there.
LEMMA PublishReleases ==
  ASSUME Base, ReleasesInv, Publish PROVE ReleasesInv'
<1>1. /\ Running /\ cleaning = FALSE /\ cleaning' = FALSE /\ Left' = Left \ {"publish"}
      /\ Head(todo) = "publish" /\ UNCHANGED <<cmd, target, before>>
  BY PublishWay DEF Moves, Steady, Goes, Ongoing
<1>2. cmd \in Publishing /\ ~Past("publish")
  BY <1>1, GoesOnHead, Heads DEF Base, Running, Names, Publishing, Past
<1>3. releases' = releases \cup {target} /\ mine'.release = (target \notin releases) /\ torn' = torn
  BY TornStays DEF Publish, Base, Typed, Memories
<1>4. ~mine.release /\ releases = before.releases
  BY <1>1, <1>2 DEF ReleasesInv, Running, Names, Publishing
<1>5. \/ mine'.release /\ releases' = before.releases \cup {target}
      \/ ~mine'.release /\ releases' = before.releases
  BY <1>3, <1>4
<1>. QED BY <1>1, <1>2, <1>3, <1>4, <1>5 DEF ReleasesInv, Past, Publishing

\* A release whose publication failed is torn in an install, and not remembered.
LEMMA FaultPublishedReleases ==
  ASSUME Base, ReleasesInv, FaultPublished
  PROVE  ReleasesInv' /\ cmd # "uninstall" /\ releases \subseteq releases'
<1>1. /\ Running /\ cleaning = FALSE /\ Turns /\ Head(todo) = "publish"
      /\ UNCHANGED <<cmd, target, before, mine>>
  BY FaultPublishedWay DEF Moves, Steady, FaultPublished
<1>2. cmd \in Publishing /\ ~Past("publish")
  BY <1>1, GoesOnHead, Heads DEF Base, Running, Names, Publishing, Past
<1>3. ~mine.release /\ releases = before.releases
  BY <1>1, <1>2 DEF ReleasesInv, Running, Names, Publishing
<1>4. /\ releases' = before.releases \cup {target}
      /\ cmd = "install" => "release" \in torn'
  BY <1>3 DEF FaultPublished
<1>5. cleaning' = TRUE /\ ~Past("release")'
  BY <1>1, <1>2, TurnItems DEF Turns
<1>. QED BY <1>1, <1>2, <1>3, <1>4, <1>5 DEF ReleasesInv, Publishing

\* Uninstall goes on when no release is left.
LEMMA QuarantineReleases ==
  ASSUME Base, ReleasesInv, Quarantine PROVE ReleasesInv'
<1>1. /\ Running /\ cleaning = FALSE /\ cleaning' = FALSE /\ Left' \subseteq Left
      /\ Head(todo) = "quarantine" /\ UNCHANGED <<cmd, target, before, mine>>
  BY QuarantineWay DEF Moves, Steady, Goes, Stays, Ongoing, Quarantine
<1>2. cmd = "uninstall" /\ "quarantine" \in Left
  BY <1>1, GoesOnHead, Heads DEF Base, Running, Names
<1>3. Past("drop")'
  BY <1>1, <1>2, Order DEF Base, Running, Past
<1>4. "quarantine" \in Left' \/ releases' = {}
  <2>1. CASE releases = {}
    BY <2>1 DEF Quarantine
  <2>2. CASE releases # {}
    BY <1>1, <1>2, <2>2, Repeating DEF Quarantine, Stays
  <2>. QED BY <2>1, <2>2
<1>. QED BY <1>1, <1>2, <1>3, <1>4 DEF ReleasesInv, Past, Publishing

\* Of the releases only the one that the command has published is removed; an update
\* reports one it does not know, and an install may leave one that is torn.
LEMMA RemoveReleaseReleases ==
  ASSUME Base, ReleasesInv, RemoveRelease
  PROVE  /\ ReleasesInv'
         /\ IF mine.release THEN releases' = before.releases ELSE releases' = releases
<1>1. /\ Running /\ cleaning = TRUE /\ cleaning' = TRUE /\ Head(todo) = "release"
      /\ UNCHANGED <<cmd, target, before, mine>> /\ torn \subseteq torn'
      /\ errors' = errors \/ errors' = TRUE
  BY RemoveReleaseWay DEF Moves, Steady, Goes, Reports, Ongoing, RemoveRelease
<1>2. cmd \in Publishing
  BY <1>1, GoesOnHead, Heads DEF Base, Running, Names, Publishing
<1>3. /\ releases = before.releases \/ releases = before.releases \cup {target}
      /\ cmd = "install" /\ ~mine.release => releases = before.releases \/ "release" \in torn
      /\ mine.release => target \notin before.releases
  BY <1>1, <1>2 DEF ReleasesInv, Running, Names, Publishing
<1>4. releases' = IF mine.release THEN releases \ {target} ELSE releases
  BY DEF RemoveRelease
<1>5. mine.release => releases' = before.releases
  BY <1>3, <1>4
<1>6. cmd = "update" /\ ~mine.release /\ errors' # TRUE => releases' = before.releases
  <2>1. ASSUME cmd = "update", ~mine.release, errors' # TRUE PROVE releases' = before.releases
    <3>1. ~Conflict
      BY <1>1, <2>1, Conflicting DEF Turns, Reports
    <3>2. target \notin releases \ before.releases
      BY <2>1, <3>1 DEF RemoveRelease
    <3>. QED BY <1>3, <1>4, <2>1, <3>2
  <2>. QED BY <2>1
<1>7. errors' # TRUE => releases' = before.releases \/ "release" \in torn'
  BY <1>1, <1>2, <1>3, <1>4, <1>5, <1>6 DEF Publishing
<1>. QED BY <1>1, <1>2, <1>3, <1>4, <1>5, <1>7 DEF ReleasesInv, Publishing

\* The releases put back are the ones found.
LEMMA RestoreReleasesReleases ==
  ASSUME Base, ReleasesInv, RestoreReleases PROVE ReleasesInv' /\ releases' = before.releases
<1>1. /\ Running /\ cleaning = TRUE /\ cleaning' = TRUE /\ Head(todo) = "unquarantine"
      /\ UNCHANGED <<cmd, target, before, mine>>
  BY RestoreReleasesWay DEF Moves, Steady, Goes, Ongoing, RestoreReleases
<1>2. cmd = "uninstall"
  BY <1>1, GoesOnHead, Heads DEF Base, Running, Names
<1>3. releases' = before.releases
  BY DEF RestoreReleases
<1>. QED BY <1>1, <1>2, <1>3 DEF ReleasesInv

\* Every step keeps the invariant of the releases.
LEMMA StepReleases == ASSUME Base, ReleasesInv, Step PROVE ReleasesInv'
<1>1. CASE HookStep
  <2>1. HookSteps \cap ReleasesFrom = {}
    BY DEF HookSteps, ReleasesFrom
  <2>. QED BY <1>1, <2>1, HookKind, ReleasesFrame DEF Recalling
<1>2. CASE FileStep
  <2>1. FileSteps \cap ReleasesFrom = {}
    BY DEF FileSteps, ReleasesFrom
  <2>. QED BY <1>2, <2>1, FileKind, ReleasesFrame
<1>3. CASE ServiceStep
  <2>1. ServiceSteps \cap ReleasesFrom = {}
    BY DEF ServiceSteps, ReleasesFrom
  <2>. QED BY <1>3, <2>1, ServiceKind, ReleasesFrame
<1>4. CASE OtherStep
  <2>1. OtherSteps \cap ReleasesFrom = {}
    BY DEF OtherSteps, ReleasesFrom
  <2>. QED BY <1>4, <2>1, OtherKind, ReleasesFrame
<1>5. CASE \/ Activate \/ DropCurrent \/ DeleteQuarantined \/ RestoreVersion
           \/ FaultSwitched \/ FaultDropped
  <2>1. Passing(LinkSteps \ ReleasesFrom)
    BY <1>5, ActivateWay, DropCurrentWay, DeleteQuarantinedWay, RestoreVersionWay, FaultSwitchedWay,
       FaultDroppedWay DEF Passing, LinkSteps, ReleasesFrom
  <2>2. /\ releases' = releases
        /\ \/ mine' = mine \/ mine' = [mine EXCEPT !.dropped = TRUE]
           \/ \E l \in {NoLink, current'} : mine' = [mine EXCEPT !.attempted = TRUE, !.link = l]
    BY <1>5 DEF Activate, DropCurrent, DeleteQuarantined, RestoreVersion, FaultSwitched, FaultDropped
  <2>3. mine'.release = mine.release
    BY <2>2 DEF Base, Typed, Memories
  <2>. QED BY <2>1, <2>2, <2>3, ReleasesFrame
<1>6. CASE Fault
  <2>1. Passing({})
    BY <1>6, FaultKind DEF Passing
  <2>. QED BY <1>6, <2>1, FaultKind, ReleasesFrame
<1>. QED BY <1>1, <1>2, <1>3, <1>4, <1>5, <1>6, StepKinds, PublishReleases, FaultPublishedReleases,
            QuarantineReleases, RemoveReleaseReleases, RestoreReleasesReleases DEF LinkStep

-----------------------------------------------------------------------------
(* Installed releases *)

\* What holds as long as no cleanup reports, nobody points "current" elsewhere and no
\* failed switch of the link is left to itself.
LEMMA Peaceful ==
  ASSUME Base, Running, Moves, ~conflicted', ~relinked', "dangling" \notin torn'
  PROVE  /\ ~conflicted /\ ~relinked /\ ~Meddled /\ (cleaning => ~errors)
         /\ "dangling" \notin torn /\ UNCHANGED <<cmd, target, before>>
<1>1. ~conflicted /\ "dangling" \notin torn /\ UNCHANGED <<cmd, target, before, relinked>>
  BY DEF Moves, Steady, Stays, Goes, Skips, Turns, Reports, Late, Ongoing, Base, Typed
<1>. QED BY <1>1 DEF Meddled, Base, Shared, Running, Names

\* A step that leaves the link, the state and the releases alone, or adds releases.
LEMMA InstalledFrame ==
  ASSUME Base, InstalledInv, Running, Moves, current' = current, files'.state = files.state,
         releases' = releases \/ (cmd # "uninstall" /\ releases \subseteq releases')
  PROVE  InstalledInv'
<1>. SUFFICES ASSUME ~conflicted', ~relinked', "dangling" \notin torn' PROVE InstalledInv'
  BY DEF InstalledInv
<1>1. /\ ~conflicted /\ ~relinked /\ "dangling" \notin torn
      /\ UNCHANGED <<cmd, before>> /\ releases \subseteq releases'
  BY Peaceful
<1>2. Refs(current, files) \subseteq releases \cup {None}
  BY <1>1 DEF InstalledInv
<1>3. Refs(current', files') = Refs(current, files)
  BY DEF Refs
<1>. QED BY <1>1, <1>2, <1>3 DEF InstalledInv

\* The link goes to an installed release, or away.
LEMMA LinkInstalled ==
  ASSUME Base, ReleasesInv, InstalledInv,
         Activate \/ DropCurrent \/ RestoreVersion \/ FaultSwitched \/ FaultDropped
  PROVE  InstalledInv'
<1>. SUFFICES ASSUME ~conflicted', ~relinked', "dangling" \notin torn' PROVE InstalledInv'
  BY DEF InstalledInv
<1>1. Running /\ Moves /\ UNCHANGED <<releases, files>>
  BY ActivateWay, DropCurrentWay, RestoreVersionWay, FaultSwitchedWay, FaultDroppedWay
     DEF Activate, DropCurrent, RestoreVersion, FaultSwitched, FaultDropped
<1>2. /\ ~conflicted /\ ~relinked /\ "dangling" \notin torn
      /\ UNCHANGED <<cmd, before>> /\ (cleaning => ~errors)
  BY <1>1, Peaceful
<1>3. /\ Refs(current, files) \subseteq releases \cup {None}
      /\ Refs(before.current, before.files) \subseteq before.releases \cup {None}
      /\ cmd = "uninstall" => \/ releases = before.releases
                              \/ current = NoLink /\ files.state = NoFiles.state
  BY <1>1, <1>2 DEF InstalledInv, Running, Names
<1>4. current'.to \in releases \cup {None}
  <2>1. CASE Activate
    BY <1>3, <2>1 DEF Activate, Exchange, Switch, Refs
  <2>2. CASE DropCurrent \/ FaultDropped
    BY <1>3, <2>2 DEF DropCurrent, FaultDropped, Refs, NoLink
  <2>3. CASE RestoreVersion
    BY <1>3, <2>3, RestoreVersionEnds DEF Refs, NoLink
  <2>4. CASE FaultSwitched
    BY <2>4 DEF FaultSwitched, Switch
  <2>. QED BY <2>1, <2>2, <2>3, <2>4
<1>5. cmd = "uninstall" => \/ releases = before.releases
                           \/ current' = NoLink /\ files.state = NoFiles.state
  <2>1. CASE Activate \/ FaultSwitched
    <3>1. cmd # "uninstall"
      BY <2>1, ActivateWay, FaultSwitchedWay, GoesOnHead, Heads DEF Base, Running
    <3>. QED BY <3>1
  <2>2. CASE DropCurrent \/ FaultDropped
    BY <1>3, <2>2 DEF DropCurrent, FaultDropped
  <2>3. CASE RestoreVersion
    <3>1. cmd = "uninstall" => Past("unquarantine") /\ cleaning
      BY <2>3, RestoreVersionWay, Order DEF Base, Running
    <3>. QED BY <1>1, <1>2, <3>1 DEF ReleasesInv, Running, Names
  <2>. QED BY <2>1, <2>2, <2>3
<1>6. Refs(current', files') \subseteq releases \cup {None}
  BY <1>1, <1>3, <1>4 DEF Refs
<1>. QED BY <1>1, <1>2, <1>3, <1>5, <1>6 DEF InstalledInv

\* A release goes only when nothing leads to it.
LEMMA ReleasesInstalled ==
  ASSUME Base, FilesInv, CurrentInv, ReleasesInv, InstalledInv,
         Quarantine \/ RemoveRelease \/ RestoreReleases
  PROVE  InstalledInv'
<1>. SUFFICES ASSUME ~conflicted', ~relinked', "dangling" \notin torn' PROVE InstalledInv'
  BY DEF InstalledInv
<1>1. Running /\ Moves /\ UNCHANGED <<current, files>>
  BY QuarantineWay, RemoveReleaseWay, RestoreReleasesWay DEF Quarantine, RemoveRelease, RestoreReleases
<1>2. /\ ~conflicted /\ ~relinked /\ ~Meddled /\ "dangling" \notin torn
      /\ UNCHANGED <<cmd, before>> /\ (cleaning => ~errors)
  BY <1>1, Peaceful
<1>3. Refs(before.current, before.files) \subseteq before.releases \cup {None}
  BY <1>1, <1>2 DEF InstalledInv, Running, Names
<1>4. CASE Quarantine
  <2>1. cmd = "uninstall" /\ ~cleaning /\ Past("drop") /\ Past("unlink")
    <3>1. Head(todo) = "quarantine" /\ cleaning = FALSE
      BY <1>4, QuarantineWay
    <3>2. cmd = "uninstall"
      BY <1>1, <3>1, GoesOnHead, Heads DEF Base, Running, Names
    <3>. QED BY <1>1, <3>1, <3>2, Order DEF Base, Running
  <2>2. current = NoLink
    BY <1>1, <1>2, <2>1 DEF CurrentInv, Unknown, Running, Names
  <2>3. files = NoFiles
    BY <1>1, <2>1 DEF FilesInv, Running, Names
  <2>4. Refs(current, files) = {None}
    BY <2>2, <2>3 DEF Refs, NoLink, NoFiles
  <2>5. Refs(current', files') = {None}
    BY <1>1, <2>4 DEF Refs
  <2>. QED BY <1>1, <1>2, <1>3, <2>2, <2>3, <2>5 DEF InstalledInv
<1>5. CASE RemoveRelease
  <2>1. /\ cmd \in {"update", "install"} /\ cleaning /\ Past("files") /\ Past("version")
    <3>1. Head(todo) = "release" /\ cleaning = TRUE
      BY <1>5, RemoveReleaseWay
    <3>2. cmd \in {"update", "install"}
      BY <1>1, <3>1, GoesOnHead, Heads DEF Base, Running, Names
    <3>. QED BY <1>1, <3>1, <3>2, Order DEF Base, Running, Names
  <2>2. ~Unknown
    BY <1>1, <1>2, <2>1 DEF CurrentInv, Unknown, Publishing, Running, Names
  <2>3. current.to = before.current.to
    BY <1>1, <1>2, <2>1, <2>2 DEF CurrentInv, Running, Names
  <2>4. files.state = before.files.state
    <3>1. PutBack
      BY <1>1, <1>2, <2>1 DEF FilesInv, Running, Names
    <3>. QED BY <3>1 DEF PutBack, Base, Typed, Snapshots, Files
  <2>5. Refs(current', files') = Refs(before.current, before.files)
    BY <1>1, <2>3, <2>4 DEF Refs
  <2>6. CASE mine.release
    <3>1. releases' = before.releases
      BY <1>5, <2>6, RemoveReleaseReleases
    <3>. QED BY <1>2, <1>3, <2>1, <2>5, <3>1 DEF InstalledInv
  <2>7. CASE ~mine.release
    <3>1. releases' = releases
      BY <1>5, <2>7, RemoveReleaseReleases
    <3>. QED BY <1>1, <3>1, InstalledFrame
  <2>. QED BY <2>6, <2>7
<1>6. CASE RestoreReleases
  <2>1. cmd = "uninstall"
    <3>1. Head(todo) = "unquarantine" /\ cleaning = TRUE
      BY <1>6, RestoreReleasesWay
    <3>. QED BY <1>1, <3>1, GoesOnHead, Heads DEF Base, Running, Names
  <2>2. current.to \in {before.current.to, None}
    BY <1>1, <1>2, <2>1 DEF CurrentInv, Running, Names
  <2>3. files.state \in {before.files.state, NoFiles.state}
    BY <1>1, <2>1 DEF FilesInv, Running, Names
  <2>4. Refs(current, files) \subseteq Refs(before.current, before.files) \cup {None}
    <3>1. NoFiles.state.current = None /\ NoFiles.state.previous = None
      BY DEF NoFiles
    <3>. QED BY <2>2, <2>3, <3>1 DEF Refs
  <2>5. Refs(current', files') \subseteq Refs(before.current, before.files) \cup {None}
    BY <1>1, <2>4 DEF Refs
  <2>6. releases' = before.releases
    BY <1>6, RestoreReleasesReleases
  <2>. QED BY <1>2, <1>3, <2>5, <2>6 DEF InstalledInv
<1>. QED BY <1>4, <1>5, <1>6

\* The new state names installed releases, also the one to roll back to.
LEMMA StateInstalled ==
  ASSUME Base, ReleasesInv, InstalledInv, Running, Moves, UNCHANGED <<current, releases>>,
         Head(todo) = "state", cleaning = FALSE, files'.state = NewState
  PROVE  InstalledInv'
<1>. SUFFICES ASSUME ~conflicted', ~relinked', "dangling" \notin torn' PROVE InstalledInv'
  BY DEF InstalledInv
<1>1. ~conflicted /\ ~relinked /\ "dangling" \notin torn /\ UNCHANGED <<cmd, before>>
  BY Peaceful
<1>2. /\ Refs(current, files) \subseteq releases \cup {None}
      /\ Refs(before.current, before.files) \subseteq before.releases \cup {None}
  BY <1>1 DEF InstalledInv, Running, Names
<1>3. cmd \in Managing /\ cmd # "uninstall"
  BY GoesOnHead, Heads DEF Base, Running, Names, Managing
<1>4. before.releases \subseteq releases
  BY <1>3 DEF ReleasesInv, Running, Names
<1>5. files'.state.current = target /\ files'.state.previous = Previous
  BY DEF NewState
<1>6. target \in releases \cup {None}
  <2>1. CASE cmd \in Publishing
    <3>1. Past("publish")
      BY <2>1, Order DEF Base, Running, Publishing
    <3>. QED BY <1>3, <2>1, <3>1 DEF ReleasesInv, Running, Names, Publishing
  <2>2. CASE cmd = "rollback"
    BY <1>2, <1>4, <2>2 DEF Base, Shared, Refs
  <2>3. CASE cmd = "repair"
    BY <1>2, <1>4, <2>3 DEF Base, Shared, Refs
  <2>. QED BY <1>3, <2>1, <2>2, <2>3 DEF Managing, Publishing
<1>7. Previous \in releases \cup {None}
  BY <1>2, <1>3, <1>4 DEF Previous, Refs, Managing
<1>8. current'.to \in releases \cup {None}
  BY <1>2 DEF Refs
<1>9. Refs(current', files') \subseteq releases \cup {None}
  BY <1>5, <1>6, <1>7, <1>8 DEF Refs
<1>. QED BY <1>1, <1>2, <1>3, <1>9 DEF InstalledInv

\* A step of the files leaves the state naming installed releases.
LEMMA FilesInstalled ==
  ASSUME Base, FilesInv, ReleasesInv, InstalledInv, FileStep
  PROVE  InstalledInv'
<1>. SUFFICES ASSUME ~conflicted', ~relinked', "dangling" \notin torn' PROVE InstalledInv'
  BY DEF InstalledInv
<1>1. Running /\ Moves /\ UNCHANGED <<current, releases>>
  BY FileKind DEF Passing
<1>2. /\ ~conflicted /\ ~relinked /\ "dangling" \notin torn
      /\ UNCHANGED <<cmd, before>> /\ (cleaning => ~errors)
  BY <1>1, Peaceful
<1>3. /\ Refs(current, files) \subseteq releases \cup {None}
      /\ Refs(before.current, before.files) \subseteq before.releases \cup {None}
      /\ cmd = "uninstall" => \/ releases = before.releases
                              \/ current = NoLink /\ files.state = NoFiles.state
  BY <1>1, <1>2 DEF InstalledInv, Running, Names
<1>4. cmd # "uninstall" => before.releases \subseteq releases
  BY <1>1 DEF ReleasesInv, Running, Names
<1>5. files \in Files
  BY DEF Base, Typed
<1>6. CASE files'.state = files.state
  BY <1>1, <1>6, InstalledFrame
<1>7. CASE WriteFile /\ Head(todo) = "state"
  <2>1. cleaning = FALSE /\ files' = [files EXCEPT !.state = NewState]
    BY <1>7, WriteFileWay DEF WriteFile, Written, Doing
  <2>2. files'.state = NewState
    BY <1>5, <2>1 DEF Files
  <2>. QED BY <1>1, <1>7, <2>1, <2>2, StateInstalled
<1>8. CASE WriteFile /\ Head(todo) # "state"
  <2>1. files'.state = files.state
    BY <1>5, <1>8 DEF WriteFile, Written, Doing, Files
  <2>. QED BY <1>6, <2>1
<1>9. CASE WriteAction \/ FaultInAction \/ FaultAtTheEnd
  <2>1. files'.state = files.state
    BY <1>5, <1>9 DEF WriteAction, FaultInAction, FaultAtTheEnd, NewAction, Files
  <2>. QED BY <1>6, <2>1
<1>10. CASE WithdrawAction
  <2>1. files'.state = files.state
    BY <1>5, <1>10 DEF WithdrawAction, Files
  <2>. QED BY <1>6, <2>1
<1>11. CASE (UnlinkFile \/ FaultUnlinked) /\ files'.state # files.state
  <2>1. files'.state = NoFiles.state
    BY <1>11, UnlinkFileFiles, FaultUnlinkedFiles
  <2>2. NoFiles.state.current = None /\ NoFiles.state.previous = None
    BY DEF NoFiles
  <2>3. Refs(current', files') \subseteq releases \cup {None}
    BY <1>1, <1>3, <2>1, <2>2 DEF Refs
  <2>4. cmd = "uninstall" => \/ releases = before.releases
                             \/ current = NoLink /\ files'.state = NoFiles.state
    BY <1>3, <2>1
  <2>. QED BY <1>1, <1>2, <1>3, <2>3, <2>4 DEF InstalledInv
<1>12. CASE RestoreFile /\ files'.state # files.state
  <2>1. files'.state = before.files.state
    BY <1>12, RestoreFileFiles
  <2>2. Head(todo) = "files" /\ cleaning = TRUE
    BY <1>12, RestoreFileWay
  <2>3. cmd = "uninstall" => releases = before.releases
    <3>1. cmd = "uninstall" => Past("unquarantine")
      BY <1>1, <2>2, Order DEF Base, Running
    <3>. QED BY <1>1, <1>2, <2>2, <3>1 DEF ReleasesInv, Running, Names
  <2>4. Refs(current', files') \subseteq releases \cup {None}
    BY <1>1, <1>3, <1>4, <2>1, <2>3 DEF Refs
  <2>. QED BY <1>1, <1>2, <1>3, <2>3, <2>4 DEF InstalledInv
<1>. QED BY <1>6, <1>7, <1>8, <1>9, <1>10, <1>11, <1>12 DEF FileStep

\* Every step leaves the link and the state leading to installed releases.
LEMMA StepInstalled ==
  ASSUME Base, FilesInv, CurrentInv, ReleasesInv, InstalledInv, Step
  PROVE  InstalledInv'
<1>1. CASE HookStep
  BY <1>1, HookKind, InstalledFrame DEF Passing
<1>2. CASE FileStep
  BY <1>2, FilesInstalled
<1>3. CASE ServiceStep
  BY <1>3, ServiceKind, InstalledFrame DEF Passing
<1>4. CASE OtherStep
  BY <1>4, OtherKind, InstalledFrame DEF Passing
<1>5. CASE Fault
  <2>1. cleaning = FALSE /\ Running /\ Moves /\ UNCHANGED <<current, releases>>
    BY <1>5, FaultKind, FaultWay
  <2>. QED BY <1>5, <2>1, FaultFiles, InstalledFrame, StateInstalled
<1>6. CASE Publish \/ FaultPublished
  <2>1. Running /\ Moves /\ UNCHANGED <<current, files>> /\ releases \subseteq releases'
    BY <1>6, PublishWay, FaultPublishedWay DEF Publish, FaultPublished
  <2>2. cmd # "uninstall"
    BY <1>6, PublishWay, FaultPublishedWay, GoesOnHead, Heads DEF Base, Running
  <2>. QED BY <2>1, <2>2, InstalledFrame
<1>7. CASE DeleteQuarantined
  BY <1>7, DeleteQuarantinedWay, InstalledFrame DEF DeleteQuarantined
<1>. QED BY <1>1, <1>2, <1>3, <1>4, <1>5, <1>6, <1>7, StepKinds, LinkInstalled, ReleasesInstalled
         DEF LinkStep

-----------------------------------------------------------------------------
(* The hook configuration *)

\* The commands with a step of the hooks.
LEMMA HookCommands ==
  ASSUME Base, Running
  PROVE  /\ ~cleaning /\ Head(todo) = "hooks" => cmd \notin {"start", "uninstall"} /\ "hooks" \in Left
         /\ ~cleaning /\ Head(todo) = "unhook" => cmd = "uninstall" /\ "unhook" \in Left
         /\ ~cleaning => Past("hooks") \/ Past("unhook")
         /\ cleaning /\ Head(todo) = "rehook" =>
                cmd \in {"update", "rollback", "repair", "first", "uninstall"} /\ Past("clirehook")
         /\ cleaning /\ Head(todo) = "clirehook" => cmd \in {"install", "hooks"} /\ Past("rehook")
<1>1. Head(todo) \in Left /\ OnTrack /\ cmd \in Names /\ cleaning \in BOOLEAN
  BY GoesOnHead DEF Base, Typed, Running
<1>2. ~cleaning /\ Head(todo) = "hooks" => cmd \notin {"start", "uninstall"}
  BY <1>1, Heads
<1>3. ~cleaning /\ Head(todo) = "unhook" => cmd = "uninstall"
  BY <1>1, Heads DEF Names
<1>4. /\ cleaning /\ Head(todo) = "rehook" => cmd \in {"update", "rollback", "repair", "first", "uninstall"}
      /\ cleaning /\ Head(todo) = "clirehook" => cmd \in {"install", "hooks"}
  BY <1>1, Heads DEF Names
<1>5. cleaning /\ cmd \in {"update", "rollback", "repair", "first", "uninstall"} => Past("clirehook")
  BY <1>1, Heads DEF Past
<1>6. cleaning /\ cmd \in {"install", "hooks"} => Past("rehook")
  BY <1>1, Heads DEF Past
<1>7. ~cleaning => Past("hooks") \/ Past("unhook")
  BY <1>1, Heads DEF Past, Names
<1>. QED BY <1>1, <1>2, <1>3, <1>4, <1>5, <1>6, <1>7

\* A step that leaves the hooks alone, with the writer at rest.
LEMMA HooksFrame ==
  ASSUME Base, HooksInv, NEW S, Passing(S), S \cap HookSteps = {}, hook' = hook,
         writer' = writer, writer = NoWriter, mine'.hook = mine.hook, mine'.noted = mine.noted
  PROVE  HooksInv'
<1>1. UNCHANGED <<cmd, before, disturbed>> /\ Running /\ writer.at = "idle" /\ writer'.at = "idle"
  BY DEF Passing, Moves, Steady, NoWriter
<1>2. CASE Stays \/ (Goes /\ Head(todo) \in S) \/ Skips \/ Late
  <2>1. cleaning' = cleaning /\ (cleaning => errors' = errors)
    BY <1>2 DEF Stays, Goes, Skips, Late, Ongoing
  <2>4. AsNoted => AsNoted'
    BY <1>1, <1>2, <2>1 DEF AsNoted, Untold
  <2>2. \A x \in HookSteps : x \in Left <=> x \in Left'
    BY <1>2 DEF Stays, Goes, Skips, Late, HookSteps
  <2>3. Hooked => Hooked'
    BY <1>1, <2>2 DEF Hooked, Past, HookSteps
  <2>. QED BY <1>1, <2>1, <2>2, <2>3, <2>4 DEF HooksInv, Past, HookSteps
<1>3. CASE Turns
  <2>1. cleaning = FALSE /\ cleaning' = TRUE /\ (AsNoted => AsNoted')
    BY <1>1, <1>3 DEF Turns, AsNoted, Untold
  <2>2. cmd # "start" => ~(Past("rehook") /\ Past("clirehook"))'
    BY <1>1, <1>3, TurnItems
  <2>3. ~disturbed => AsNoted /\ (cmd = "start" => hook = before.hook)
    BY <1>1, <2>1 DEF HooksInv, AsNoted, Untold, Running, Names
  <2>. QED BY <1>1, <2>1, <2>2, <2>3 DEF HooksInv
<1>4. CASE Reports
  <2>1. AsNoted => AsNoted'
    BY <1>1, <1>4 DEF Reports, AsNoted, Untold
  <2>. QED BY <1>1, <1>4, <2>1 DEF HooksInv, Reports, Past
<1>. QED BY <1>2, <1>3, <1>4 DEF Passing

\* The writer of the command under way.
LEMMA ReadHookHooks ==
  ASSUME Base, HooksInv, ReadHook PROVE HooksInv'
<1>. USE DEF Untold
<1>1. /\ Running /\ cleaning = FALSE /\ Head(todo) \in {"hooks", "unhook"} /\ (Goes \/ Stays)
      /\ UNCHANGED <<cmd, before, disturbed, hook>> /\ writer = NoWriter /\ cleaning' = FALSE
  <2>1. Running /\ Moves /\ cleaning = FALSE /\ Head(todo) \in {"hooks", "unhook"} /\ (Goes \/ Stays)
    BY ReadHookWay
  <2>2. hook' = hook
    BY DEF ReadHook, disk
  <2>3. writer = NoWriter
    BY DEF ReadHook, Base, Writing
  <2>. QED BY <2>1, <2>2, <2>3 DEF Moves, Steady, Goes, Stays, Ongoing
<1>2. /\ Head(todo) = "hooks" => cmd \notin {"start", "uninstall"} /\ "hooks" \in Left
      /\ Head(todo) = "unhook" => cmd = "uninstall" /\ "unhook" \in Left
      /\ (Past("hooks") \/ Past("unhook")) /\ ~(Past("hooks") /\ Past("unhook"))
  BY <1>1, HookCommands DEF Past
<1>3. ~disturbed => AsNoted
  BY <1>1 DEF HooksInv, NoWriter, Running, Names
<1>4. mine \in Memories /\ writer.at = "idle"
  BY <1>1 DEF Base, Typed, NoWriter
<1>5. CASE Goes /\ mine' = Noting(hook) /\ writer' = writer /\ (hook.ours = Wanted \/ (cmd = "first" /\ ~hook.ours))
  <2>1. AsNoted => AsNoted'
    <3>1. CASE cmd \in Noters
      <4>1. mine'.hook = hook /\ mine'.noted = TRUE
        BY <1>4, <1>5, <3>1 DEF Noting, Memories
      <4>. QED BY <1>1, <4>1 DEF AsNoted
    <3>2. CASE cmd \notin Noters
      BY <1>1, <1>5, <3>2 DEF Noting, AsNoted
    <3>. QED BY <3>1, <3>2
  <2>2. Hooked'
    <3>1. cmd \in Managing => Head(todo) = "hooks" /\ hook.ours
      BY <1>1, <1>2, <1>5 DEF Managing, Wanted
    <3>2. cmd = "uninstall" => ~hook.ours
      BY <1>1, <1>2, <1>5 DEF Wanted, Base, Typed, Hooks
    <3>. QED BY <1>1, <1>4, <1>5, <3>1, <3>2 DEF Hooked
  <2>3. (Past("hooks") /\ Past("unhook"))' /\ cmd # "start"
    BY <1>1, <1>2, <1>5 DEF Goes, Past
  <2>. QED BY <1>1, <1>3, <1>4, <1>5, <2>1, <2>2, <2>3 DEF HooksInv
<1>6. CASE Stays /\ mine' = mine /\ \E l \in {"exchange", "plain"} :
                                        writer' = [writer EXCEPT !.at = l, !.source = hook]
  <2>1. writer'.at \in {"exchange", "plain"} /\ writer'.source = hook
    BY <1>1, <1>6 DEF NoWriter
  <2>2. Left' = Left /\ AsNoted' = AsNoted
    BY <1>1, <1>6 DEF Stays, AsNoted
  <2>3. Hooked'
    BY <1>1, <1>2, <2>1, <2>2 DEF Hooked, Past, Managing
  <2>4. ~mine'.noted
    BY <1>1, <1>2, <1>6 DEF HooksInv, Running, Names
  <2>. QED BY <1>1, <1>2, <1>3, <2>1, <2>2, <2>3, <2>4 DEF HooksInv
<1>7. Advance => Goes
  BY <1>1, Advancing
<1>8. Repeat => Stays
  BY <1>1, Repeating
<1>. QED BY <1>5, <1>6, <1>7, <1>8 DEF ReadHook

\* Without another program the exchange displaces its source and is committed.
LEMMA CommittingHooks ==
  ASSUME Base, HooksInv, ExchangeHook \/ CommitHook PROVE HooksInv'
<1>1. /\ Running /\ cleaning = FALSE /\ Head(todo) \in {"hooks", "unhook"} /\ (Goes \/ Stays)
      /\ UNCHANGED <<cmd, before, disturbed>> /\ cleaning' = FALSE
  <2>1. Running /\ Moves /\ cleaning = FALSE /\ Head(todo) \in {"hooks", "unhook"} /\ (Goes \/ Stays)
    BY ExchangeHookWay, CommitHookWay
  <2>. QED BY <2>1 DEF Moves, Steady, Goes, Stays, Ongoing
<1>2. /\ Head(todo) = "hooks" => cmd \notin {"start", "uninstall"} /\ "hooks" \in Left
      /\ Head(todo) = "unhook" => cmd = "uninstall" /\ "unhook" \in Left
      /\ (Past("hooks") \/ Past("unhook")) /\ ~(Past("hooks") /\ Past("unhook"))
  BY <1>1, HookCommands DEF Past
<1>3. ~disturbed => Hooked
  BY <1>1 DEF HooksInv, Running, Names
<1>4. ~mine.noted /\ cmd # "start"
  BY <1>1, <1>2 DEF HooksInv, Running, Names
<1>5. (~(Past("hooks") /\ Past("unhook")))' => ~mine'.noted
  <2>1. CASE Stays
    <3>1. CASE ExchangeHook
      BY <1>4, <3>1 DEF ExchangeHook
    <3>2. CASE CommitHook
      <4>1. cmd \in Noters
        <5>1. Advance => "hooks" \notin Left' /\ "unhook" \notin Left'
          BY <1>1, <1>2, Advancing DEF Goes, Past
        <5>. QED BY <1>2, <2>1, <3>2, <5>1 DEF CommitHook, Stays, Past
      <4>. QED BY <3>2, <4>1 DEF CommitHook, Base, Typed, Memories
    <3>. QED BY <3>1, <3>2
  <2>2. CASE Goes
    BY <1>1, <1>2, <2>2 DEF Goes, Past
  <2>. QED BY <1>1, <2>1, <2>2
<1>. SUFFICES ASSUME ~disturbed PROVE HooksInv'
  BY <1>1, <1>4, <1>5 DEF HooksInv
<1>6. CASE ExchangeHook
  <2>1. /\ hook' = Merged /\ writer' = [writer EXCEPT !.at = "exchanged", !.temp = hook]
        /\ writer.at = "exchange" /\ mine' = mine /\ todo' = todo /\ Left' = Left
    BY <1>1, <1>6, Repeating DEF ExchangeHook, Stays
  <2>2. writer'.at = "exchanged" /\ writer'.temp = hook /\ writer'.source = writer.source
    BY <2>1 DEF Base, Typed, Writers
  <2>3. hook = writer.source
    BY <1>3, <2>1 DEF Hooked
  <2>4. Merged' = Merged
    BY <2>1, <2>2 DEF Merged, Wanted
  <2>5. Hooked'
    BY <1>1, <1>2, <2>1, <2>2, <2>3, <2>4 DEF Hooked, Past, Managing
  <2>. QED BY <1>1, <1>4, <1>5, <2>2, <2>5 DEF HooksInv
<1>7. CASE CommitHook
  <2>1. /\ writer.at = "exchanged" /\ hook' = hook
        /\ mine' = [mine EXCEPT !.hook = Merged, !.noted = cmd \notin Noters, !.backup = writer.temp.edit]
        /\ IF cmd \in Noters THEN writer' = [NoWriter EXCEPT !.at = "note"] /\ Repeat
                              ELSE writer' = NoWriter /\ Advance
    BY <1>7 DEF CommitHook
  <2>2. hook = Merged /\ Merged # NoHook /\ (Head(todo) = "hooks" <=> Merged.ours)
    BY <1>3, <2>1, MergedTyped DEF Hooked
  <2>3. mine'.hook = Merged /\ mine'.noted = (cmd \notin Noters)
    BY <2>1 DEF Base, Typed, Memories
  <2>4. CASE cmd \in Noters
    <3>1. writer'.at = "note" /\ Left' = Left
      BY <1>1, <2>1, <2>4, Repeating DEF NoWriter, Stays
    <3>2. Hooked'
      BY <1>1, <1>2, <2>1, <2>2, <2>4, <3>1 DEF Hooked, Past, Managing, Noters
    <3>. QED BY <1>1, <1>4, <1>5, <3>1, <3>2 DEF HooksInv
  <2>5. CASE cmd \notin Noters
    <3>1. writer'.at = "idle"
      BY <2>1, <2>5 DEF NoWriter
    <3>2. Hooked'
      BY <1>1, <1>2, <2>1, <2>2, <2>5, <3>1 DEF Hooked, Managing
    <3>3. AsNoted'
      BY <2>1, <2>2, <2>3, <2>5 DEF AsNoted
    <3>. QED BY <1>1, <1>4, <1>5, <3>1, <3>2, <3>3 DEF HooksInv
  <2>. QED BY <2>4, <2>5
<1>. QED BY <1>6, <1>7

\* A conflict means that another program has interfered.
LEMMA ConflictingHooks ==
  ASSUME Base, HooksInv, RefuseHook \/ YieldHook \/ RecoverHook PROVE HooksInv'
<1>1. /\ Running /\ cleaning = FALSE /\ Head(todo) \in {"hooks", "unhook"}
      /\ UNCHANGED <<cmd, before, disturbed>> /\ (Stays \/ Turns)
  BY RefuseHookWay, YieldHookWay, RecoverHookWay DEF Moves, Steady
<1>2. /\ cmd # "start"
      /\ ~(Past("hooks") /\ Past("unhook")) /\ ~mine.noted
  BY <1>1, HookCommands DEF HooksInv, Past, Running, Names
<1>3. disturbed
  <2>1. ~disturbed => Hooked
    BY <1>1 DEF HooksInv, Running, Names
  <2>. QED BY <2>1 DEF Hooked, RefuseHook, YieldHook, RecoverHook
<1>4. cleaning' = FALSE => ~mine'.noted
  <2>1. Conflict => cleaning' = TRUE
    BY DEF Conflict, Failing
  <2>. QED BY <1>2, <2>1 DEF RefuseHook, YieldHook, RecoverHook
<1>5. cleaning' \in BOOLEAN
  BY <1>1 DEF Stays, Turns, Ongoing
<1>. QED BY <1>1, <1>2, <1>3, <1>4, <1>5 DEF HooksInv

\* A first run switches the hooks off; it and an install note the file afterwards.
LEMMA NotingHooks ==
  ASSUME Base, HooksInv, ReplacePlainly \/ NoteHook PROVE HooksInv'
<1>1. /\ Running /\ cleaning = FALSE /\ Head(todo) \in {"hooks", "unhook"} /\ (Goes \/ Stays)
      /\ UNCHANGED <<cmd, before, disturbed>> /\ cleaning' = FALSE
  <2>1. Running /\ Moves /\ cleaning = FALSE /\ Head(todo) \in {"hooks", "unhook"} /\ (Goes \/ Stays)
    BY ReplacePlainlyWay, NoteHookWay
  <2>. QED BY <2>1 DEF Moves, Steady, Goes, Stays, Ongoing
<1>2. cmd \in Noters
  BY DEF ReplacePlainly, NoteHook, Base, Writing, Noters
<1>3. ~disturbed => Hooked
  BY <1>1 DEF HooksInv, Running, Names
<1>4. (~(Past("hooks") /\ Past("unhook")))' => ~mine'.noted
  <2>1. ~mine.noted /\ (Past("hooks") \/ Past("unhook"))
    BY <1>1, HookCommands DEF HooksInv, Past, Running, Names
  <2>2. CASE ReplacePlainly
    BY <2>1, <2>2 DEF ReplacePlainly
  <2>3. CASE NoteHook
    <3>1. Left' = Left \ {Head(todo)}
      BY <1>1, <2>3, Advancing DEF NoteHook, Goes
    <3>. QED BY <1>1, <2>1, <3>1, HookCommands DEF Past
  <2>. QED BY <2>2, <2>3
<1>. SUFFICES ASSUME ~disturbed PROVE HooksInv'
  BY <1>1, <1>2, <1>4 DEF HooksInv, Noters
<1>5. CASE ReplacePlainly
  <2>1. /\ cmd = "first" /\ writer.source.ours /\ Absent(writer.source)
    BY <1>5 DEF ReplacePlainly, Base, Writing, Shared
  <2>2. /\ hook' = [ours |-> FALSE, edit |-> writer.source.edit] /\ writer'.at = "note"
    BY <1>5 DEF ReplacePlainly, NoWriter
  <2>3. hook' # NoHook
    <3>1. NoHook.ours = FALSE /\ NoHook.edit = -1
      BY DEF NoHook
    <3>2. writer.source.edit # -1
      BY <2>1, <3>1 DEF Absent
    <3>. QED BY <2>2, <3>1, <3>2
  <2>4. Hooked'
    BY <1>1, <2>1, <2>2, <2>3 DEF Hooked, Managing
  <2>. QED BY <1>1, <1>4, <2>1, <2>2, <2>4 DEF HooksInv
<1>6. CASE NoteHook
  <2>1. writer.at = "note" /\ hook' = hook /\ writer'.at = "idle"
    BY <1>6 DEF NoteHook, disk, NoWriter
  <2>2. mine'.hook = hook /\ mine'.noted = TRUE
    BY <1>6 DEF NoteHook, Base, Typed, Memories
  <2>3. hook # NoHook /\ (cmd = "install" => hook.ours)
    BY <1>3, <2>1 DEF Hooked
  <2>4. Hooked'
    BY <1>1, <1>2, <2>1, <2>3 DEF Hooked, Managing, Noters
  <2>5. AsNoted'
    BY <2>1, <2>2, <2>3 DEF AsNoted
  <2>. QED BY <1>1, <1>2, <1>4, <2>1, <2>4, <2>5 DEF HooksInv, Noters
<1>. QED BY <1>5, <1>6

\* The configuration found is put back, under the name it had.
LEMMA PuttingHooks ==
  ASSUME Base, HooksInv, ClaimHook \/ PutHookBack PROVE HooksInv'
<1>1. /\ Running /\ cleaning = TRUE /\ Head(todo) = "rehook" /\ cleaning' = TRUE
      /\ UNCHANGED <<cmd, before, disturbed, mine>>
  <2>1. /\ Running /\ Moves /\ cleaning = TRUE /\ Head(todo) = "rehook" /\ (Goes \/ Stays \/ Reports)
    BY ClaimHookWay, PutHookBackWay
  <2>2. mine' = mine
    BY DEF ClaimHook, PutHookBack
  <2>. QED BY <2>1, <2>2 DEF Moves, Steady, Goes, Stays, Reports, Ongoing
<1>2. cmd \in {"update", "rollback", "repair", "first", "uninstall"} /\ Past("clirehook") /\ "rehook" \in Left
  BY <1>1, HookCommands, GoesOnHead
<1>. SUFFICES ASSUME ~disturbed PROVE HooksInv'
  BY <1>1, <1>2 DEF HooksInv
<1>3. Advance => Left' = Left \ {"rehook"} /\ errors' = errors
  BY <1>1, Advancing DEF Goes, Ongoing
<1>4. Repeat => Left' = Left
  BY <1>1, Repeating DEF Stays
<1>5. CASE ClaimHook
  <2>1. writer.at = "idle" /\ AsNoted
    BY <1>1, <1>2, <1>5 DEF ClaimHook, HooksInv, Past
  <2>2. CASE cmd = "first" /\ ~mine.noted
    <3>1. hook' = hook /\ writer' = writer /\ Advance
      BY <1>5, <2>2 DEF ClaimHook
    <3>2. hook = before.hook \/ errors
      BY <1>2, <2>1, <2>2 DEF AsNoted, Untold, Careful
    <3>. QED BY <1>1, <1>2, <1>3, <2>1, <3>1, <3>2 DEF HooksInv, Past
  <2>3. CASE ~(cmd = "first" /\ ~mine.noted)
    <3>. DEFINE expected == IF mine.noted THEN mine.hook ELSE before.hook
    <3>1. CASE hook # expected
      <4>1. hook' = hook /\ writer' = writer /\ Conflict
        BY <1>5, <2>3, <3>1 DEF ClaimHook
      <4>2. errors' = TRUE
        BY <1>1, <4>1, Conflicting DEF Turns, Reports
      <4>3. AsNoted'
        BY <1>1, <2>1, <4>1, <4>2 DEF AsNoted, Untold
      <4>. QED BY <1>1, <1>2, <2>1, <4>1, <4>2, <4>3 DEF HooksInv
    <3>2. CASE hook = expected /\ hook = NoHook
      <4>1. hook' = hook /\ writer' = writer /\ Advance
        BY <1>5, <2>3, <3>2 DEF ClaimHook
      <4>2. hook = before.hook
        BY <2>1, <3>2 DEF AsNoted
      <4>. QED BY <1>1, <1>2, <1>3, <2>1, <4>1, <4>2 DEF HooksInv, Past
    <3>3. CASE hook = expected /\ hook # NoHook
      <4>1. writer' = [NoWriter EXCEPT !.at = "claimed", !.temp = hook] /\ hook' = NoHook /\ Repeat
        BY <1>5, <2>3, <3>3 DEF ClaimHook
      <4>2. writer'.at = "claimed" /\ "rehook" \in Left'
        BY <1>2, <1>4, <4>1 DEF NoWriter
      <4>. QED BY <1>1, <1>2, <4>1, <4>2 DEF HooksInv, Past
    <3>. QED BY <3>1, <3>2, <3>3
  <2>. QED BY <2>2, <2>3
<1>6. CASE PutHookBack
  <2>1. writer.at = "claimed" /\ hook = NoHook /\ writer'.at = "idle"
    BY <1>1, <1>6 DEF PutHookBack, HooksInv, NoWriter, Running, Names
  <2>2. hook' = before.hook /\ Advance
    BY <1>6, <2>1 DEF PutHookBack
  <2>. QED BY <1>1, <1>2, <1>3, <2>1, <2>2 DEF HooksInv, Past
<1>. QED BY <1>5, <1>6

\* A claimed configuration that got its name back is reported.
LEMMA FaultInClaimHooks ==
  ASSUME Base, HooksInv, FaultInClaim PROVE HooksInv'
<1>1. /\ Running /\ cleaning = TRUE /\ cleaning' = TRUE /\ Head(todo) = "rehook" /\ errors' = TRUE
      /\ UNCHANGED <<cmd, before, disturbed, mine>>
  BY FaultInClaimWay DEF Moves, Steady, Reports, FaultInClaim
<1>2. cmd \in {"update", "rollback", "repair", "first", "uninstall"} /\ Past("clirehook")
  BY <1>1, HookCommands
<1>3. todo' = Tail(todo)
  BY <1>1 DEF FaultInClaim, Breaks, Failing
<1>4. Left' = Left \ {"rehook"}
  BY <1>1, <1>3, TrackTyped, TailEnds DEF Base, Typed, Running, OnTrack, Names, Left
<1>5. writer'.at = "idle"
  BY DEF FaultInClaim, NoWriter
<1>. QED BY <1>1, <1>2, <1>4, <1>5 DEF HooksInv, Past

\* The command line compares the configuration with the one it noted and replaces it.
LEMMA ComparingHooks ==
  ASSUME Base, HooksInv, CompareHook \/ ReplaceWithOld PROVE HooksInv'
<1>1. /\ Running /\ cleaning = TRUE /\ Head(todo) = "clirehook" /\ cleaning' = TRUE
      /\ UNCHANGED <<cmd, before, disturbed, mine>>
  <2>1. /\ Running /\ Moves /\ cleaning = TRUE /\ Head(todo) = "clirehook" /\ (Goes \/ Stays \/ Reports)
    BY CompareHookWay, ReplaceWithOldWay
  <2>2. mine' = mine
    BY DEF CompareHook, ReplaceWithOld
  <2>. QED BY <2>1, <2>2 DEF Moves, Steady, Goes, Stays, Reports, Ongoing
<1>2. cmd \in {"install", "hooks"} /\ Past("rehook") /\ "clirehook" \in Left
  BY <1>1, HookCommands, GoesOnHead
<1>. SUFFICES ASSUME ~disturbed PROVE HooksInv'
  BY <1>1, <1>2 DEF HooksInv
<1>3. Advance => Left' = Left \ {"clirehook"} /\ errors' = errors
  BY <1>1, Advancing DEF Goes, Ongoing
<1>4. Repeat => Left' = Left
  BY <1>1, Repeating DEF Stays
<1>5. CASE CompareHook
  <2>1. writer.at = "idle" /\ AsNoted /\ hook' = hook
    BY <1>1, <1>2, <1>5 DEF CompareHook, HooksInv, Past, disk
  <2>2. CASE mine.noted
    <3>1. writer' = [NoWriter EXCEPT !.at = "replace"] /\ Repeat
      BY <1>5, <2>1, <2>2 DEF CompareHook, AsNoted
    <3>2. writer'.at = "replace" /\ Left' = Left
      BY <1>4, <3>1 DEF NoWriter
    <3>3. AsNoted'
      BY <1>1, <2>1, <2>2 DEF AsNoted
    <3>. QED BY <1>1, <1>2, <3>2, <3>3 DEF HooksInv, Past
  <2>3. CASE ~mine.noted /\ ~(cmd = "hooks" /\ hook # before.hook)
    <3>1. hook = before.hook \/ errors
      BY <1>2, <2>1, <2>3 DEF AsNoted, Untold, Careful
    <3>2. writer' = writer /\ Advance
      BY <1>5, <2>3 DEF CompareHook
    <3>. QED BY <1>1, <1>2, <1>3, <2>1, <3>1, <3>2 DEF HooksInv, Past
  <2>4. CASE ~mine.noted /\ cmd = "hooks" /\ hook # before.hook
    <3>1. writer' = writer /\ Conflict
      BY <1>5, <2>4 DEF CompareHook
    <3>2. errors' = TRUE
      BY <1>1, <3>1, Conflicting DEF Turns, Reports
    <3>3. AsNoted'
      BY <1>1, <2>1, <3>2 DEF AsNoted, Untold
    <3>. QED BY <1>1, <1>2, <2>1, <3>1, <3>2, <3>3 DEF HooksInv
  <2>. QED BY <2>2, <2>3, <2>4
<1>6. CASE ReplaceWithOld
  <2>1. hook' = before.hook /\ writer'.at = "idle" /\ Advance
    BY <1>6 DEF ReplaceWithOld, NoWriter
  <2>. QED BY <1>1, <1>2, <1>3, <2>1 DEF HooksInv, Past
<1>. QED BY <1>5, <1>6

\* A fault leaves the configuration; an install notes it as it is, and a first run reports it.
LEMMA FaultHooks ==
  ASSUME Base, HooksInv, Fault PROVE HooksInv'
<1>1. /\ Running /\ Turns /\ UNCHANGED <<cmd, before, disturbed, hook>>
      /\ writer'.at = "idle" /\ writer.at \in {"idle", "exchange", "plain", "note"}
      /\ cleaning = FALSE /\ cleaning' = TRUE
  <2>1. /\ Running /\ Moves /\ Turns /\ writer' = NoWriter /\ hook' = hook
        /\ writer.at \in {"idle", "exchange", "plain", "note"}
    BY FaultKind
  <2>2. UNCHANGED <<cmd, before, disturbed>> /\ cleaning = FALSE /\ cleaning' = TRUE
    BY <2>1 DEF Moves, Steady, Turns
  <2>. QED BY <2>1, <2>2 DEF NoWriter
<1>2. \/ mine'.hook = mine.hook /\ mine'.noted = mine.noted
      \/ cmd = "install" /\ mine'.hook = hook /\ mine'.noted = TRUE
  BY FaultKind
<1>3. ~disturbed => AsNoted'
  <2>. SUFFICES ASSUME ~disturbed PROVE AsNoted'
    OBVIOUS
  <2>1. CASE writer.at \in {"idle", "exchange", "plain"}
    <3>1. AsNoted
      BY <1>1, <2>1 DEF HooksInv, Running, Names
    <3>. QED BY <1>1, <1>2, <3>1 DEF AsNoted, Untold
  <2>2. CASE writer.at = "note"
    <3>1. /\ cmd \in Noters /\ Head(todo) \in {"hooks", "unhook"} /\ hook # NoHook
      BY <1>1, <2>2 DEF HooksInv, Hooked, Base, Writing, Running, Names
    <3>2. Head(todo) = "hooks" /\ "hooks" \in Left
      BY <1>1, <3>1, HookCommands DEF Noters
    <3>3. ~mine.noted
      BY <1>1, <3>2 DEF HooksInv, Past, Running, Names
    <3>4. CASE cmd = "first"
      <4>1. errors' = TRUE /\ ~mine'.noted
        BY <1>1, <1>2, <3>2, <3>3, <3>4 DEF Turns
      <4>. QED BY <1>1, <4>1 DEF AsNoted, Untold
    <3>5. CASE cmd = "install"
      <4>1. mine' = [mine EXCEPT !.hook = hook, !.noted = TRUE]
        BY <1>1, <3>2, <3>5 DEF Fault, Doing, Running, Names, NotingFailure, Noting, Noters
      <4>2. mine'.hook = hook /\ mine'.noted
        BY <4>1 DEF Base, Typed, Memories
      <4>. QED BY <1>1, <3>1, <4>2 DEF AsNoted
    <3>. QED BY <3>1, <3>4, <3>5 DEF Noters
  <2>. QED BY <1>1, <2>1, <2>2
<1>4. cmd # "start" => ~(Past("rehook") /\ Past("clirehook"))'
  BY <1>1, TurnItems
<1>5. cmd = "start" => ~mine.noted /\ ~mine'.noted
  BY <1>1, <1>2 DEF HooksInv
<1>6. cmd = "start" /\ ~disturbed => hook = before.hook
  <2>1. cmd = "start" => writer.at = "idle"
    BY <1>1, HookCommands DEF Base, Writing, Noters
  <2>. QED BY <1>1, <1>5, <2>1 DEF HooksInv, AsNoted, Untold, Running, Names
<1>. QED BY <1>1, <1>3, <1>4, <1>5, <1>6 DEF HooksInv

\* A change of the configuration that failed is noted, or reported, or left to a cleanup that
\* looks at what it finds.
LEMMA FaultExchangedHooks ==
  ASSUME Base, HooksInv, FaultExchanged PROVE HooksInv'
<1>1. /\ Running /\ Turns /\ UNCHANGED <<cmd, before, disturbed, hook>>
      /\ Head(todo) \in {"hooks", "unhook"} /\ writer'.at = "idle" /\ writer.at = "exchanged"
      /\ cleaning = FALSE /\ cleaning' = TRUE
  BY FaultExchangedWay DEF Moves, Steady, Turns, FaultExchanged, NoWriter
<1>2. cmd # "start" /\ ~mine.noted
  BY <1>1, HookCommands DEF HooksInv, Past, Running, Names
<1>3. ~(Past("rehook") /\ Past("clirehook"))'
  BY <1>1, <1>2, TurnItems
<1>5. mine' \in (CASE cmd = "first" -> {[mine EXCEPT !.spared = "hooks"]}
                   [] cmd = "install" -> {Noting(hook)}
                   [] cmd \notin Noters /\ hook = Merged ->
                          {mine, [mine EXCEPT !.hook = Merged, !.noted = TRUE]}
                   [] OTHER -> {mine})
  BY DEF FaultExchanged
<1>4. ~disturbed => AsNoted'
  <2>. SUFFICES ASSUME ~disturbed PROVE AsNoted'
    OBVIOUS
  <2>1. hook = Merged /\ hook # NoHook
    <3>1. Hooked
      BY <1>1 DEF HooksInv, Running, Names
    <3>. QED BY <1>1, <3>1, MergedTyped DEF Hooked
  <2>2. CASE cmd = "first"
    <3>1. mine' = [mine EXCEPT !.spared = "hooks"]
      BY <1>5, <2>2 DEF Noters
    <3>2. mine'.noted = mine.noted
      BY <3>1 DEF Base, Typed, Memories
    <3>3. errors' = TRUE
      BY <1>1, <2>2 DEF Turns
    <3>. QED BY <1>1, <1>2, <3>2, <3>3 DEF AsNoted, Untold
  <2>3. CASE cmd = "install"
    <3>1. mine' = [mine EXCEPT !.hook = hook, !.noted = TRUE]
      BY <1>5, <2>3 DEF Noting, Noters
    <3>2. mine'.hook = hook /\ mine'.noted
      BY <3>1 DEF Base, Typed, Memories
    <3>. QED BY <1>1, <2>1, <3>2 DEF AsNoted
  <2>4. CASE cmd \notin {"first", "install"}
    <3>1. mine' \in {mine, [mine EXCEPT !.hook = Merged, !.noted = TRUE]}
      BY <1>5, <2>1, <2>4 DEF Noters
    <3>2. mine' = mine \/ (mine'.hook = hook /\ mine'.noted)
      BY <2>1, <3>1 DEF Base, Typed, Memories
    <3>3. cmd \in Careful \cup {"hooks"}
      BY <1>1, <1>2, <2>4 DEF Careful, Running, Names
    <3>. QED BY <1>1, <1>2, <2>1, <3>2, <3>3 DEF AsNoted, Untold
  <2>. QED BY <2>2, <2>3, <2>4
<1>. QED BY <1>1, <1>2, <1>3, <1>4 DEF HooksInv

\* Every step keeps the invariant of the hook configuration.
LEMMA StepHooks == ASSUME Base, HooksInv, Step PROVE HooksInv'
<1>1. CASE HookStep
  BY <1>1, ReadHookHooks, CommittingHooks, ConflictingHooks, NotingHooks, PuttingHooks, ComparingHooks,
     FaultExchangedHooks, FaultInClaimHooks DEF HookStep
<1>2. CASE LinkStep
  <2>1. LinkSteps \cap HookSteps = {}
    BY DEF LinkSteps, HookSteps
  <2>. QED BY <1>2, <2>1, LinkKind, HooksFrame
<1>3. CASE FileStep
  <2>1. FileSteps \cap HookSteps = {}
    BY DEF FileSteps, HookSteps
  <2>. QED BY <1>3, <2>1, FileKind, HooksFrame
<1>4. CASE ServiceStep
  <2>1. ServiceSteps \cap HookSteps = {}
    BY DEF ServiceSteps, HookSteps
  <2>. QED BY <1>4, <2>1, ServiceKind, HooksFrame
<1>5. CASE OtherStep
  <2>1. OtherSteps \cap HookSteps = {}
    BY DEF OtherSteps, HookSteps
  <2>. QED BY <1>5, <2>1, OtherKind, HooksFrame
<1>6. CASE Fault
  BY <1>6, FaultHooks
<1>. QED BY <1>1, <1>2, <1>3, <1>4, <1>5, <1>6, StepKinds

-----------------------------------------------------------------------------
(* The service *)

\* Of a cleanup that has put the version back without having anything to put back.
LEMMA SkippedService ==
  ASSUME Base, ServiceInv, Running, Skips, ~errors, Starting, "service" \notin torn
  PROVE  service = before.service \/ Meddled
<1>1. cleaning = TRUE /\ cmd = "update" /\ Head(todo) = "version" /\ mine.link = NoLink
  BY DEF Skips, Base, Typed
<1>2. Past("bootout")
  BY <1>1, Order DEF Base, Running
<1>3. CASE Past("service")
  BY <1>1, <1>3 DEF ServiceInv
<1>4. CASE ~Past("service")
  <2>1. service = None /\ mine.stopped = (before.service # None)
    BY <1>1, <1>2, <1>4 DEF ServiceInv, Found, Stopped
  <2>2. mine.attempted /\ before.service = before.current.to
    BY <1>1 DEF Starting
  <2>3. CASE ~mine.stopped
    BY <2>1, <2>3
  <2>4. CASE mine.stopped
    <3>1. before.current = NoLink
      BY <2>2, <2>4 DEF Skips
    <3>. QED BY <2>1, <2>2, <2>4, <3>1 DEF NoLink
  <2>. QED BY <2>3, <2>4
<1>. QED BY <1>3, <1>4

ServiceFrom == {"service", "bootout", "pending"}

\* A step that leaves the service alone.
LEMMA ServiceFrame ==
  ASSUME Base, ServiceInv, NEW S, Passing(S), S \cap ServiceFrom = {}, service' = service,
         mine'.link = mine.link \/ (Turns /\ mine.link = NoLink),
         mine'.pending = mine.pending, mine'.stopped = mine.stopped,
         mine'.attempted = mine.attempted \/ Turns
  PROVE  ServiceInv'
<1>1. UNCHANGED <<cmd, target, before>> /\ Running /\ Meddled' = Meddled
  BY DEF Passing, Moves, Steady, Meddled
<1>6. mine'.link = NoLink => mine.link = NoLink
  OBVIOUS
<1>2. CASE Stays \/ (Goes /\ Head(todo) \in S) \/ Late
  <2>1. cleaning' = cleaning /\ (cleaning => errors' = errors) /\ torn' = torn
    BY <1>2 DEF Stays, Goes, Late, Ongoing
  <2>2. \A x \in ServiceFrom : x \in Left <=> x \in Left'
    BY <1>2 DEF Stays, Goes, Late, ServiceFrom
  <2>3. mine'.attempted = mine.attempted
    BY <2>1 DEF Turns
  <2>4. /\ Past("service")' = Past("service") /\ Past("bootout")' = Past("bootout")
        /\ Past("pending")' = Past("pending")
    BY <2>2 DEF Past, ServiceFrom
  <2>5. Found' /\ Stopped'
    BY <1>1, <1>6, <2>1, <2>4 DEF ServiceInv, Found, Stopped, Running, Names
  <2>6. Starting' = Starting
    BY <1>1, <2>3 DEF Starting
  <2>. QED BY <1>1, <2>1, <2>4, <2>5, <2>6 DEF ServiceInv, Running, Names
<1>3. CASE Skips
  <2>1. /\ cleaning = TRUE /\ cleaning' = TRUE /\ errors' = errors /\ cmd = "update" /\ torn' = torn
        /\ Head(todo) = "version" /\ Past("service")' /\ mine'.attempted = mine.attempted
    BY <1>3 DEF Skips, Ongoing, Past, Turns, Base, Typed
  <2>2. Past("bootout") /\ Past("bootout")'
    <3>1. Past("bootout")
      BY <2>1, Order DEF Base, Running, Passing
    <3>. QED BY <1>3, <3>1 DEF Skips, Past
  <2>3. Found' /\ Stopped'
    BY <1>1, <1>6, <2>1, <2>2 DEF ServiceInv, Found, Stopped, Running, Names
  <2>4. Starting' = Starting
    BY <1>1, <2>1 DEF Starting
  <2>5. Starting /\ ~Meddled /\ ~errors /\ "service" \notin torn => service = before.service
    BY <1>1, <1>3, SkippedService
  <2>. QED BY <1>1, <2>1, <2>3, <2>4, <2>5 DEF ServiceInv
<1>4. CASE Turns
  <2>1. cleaning = FALSE /\ cleaning' = TRUE /\ torn \subseteq torn'
    BY <1>4 DEF Turns
  <2>2. /\ cmd \notin {"hooks", "start"} => ~Past("service")' /\ (cmd \in Managing => ~Past("bootout")')
    BY <1>1, <1>4, TurnItems
  <2>3. Found' /\ Stopped'
    BY <1>1, <1>6, <2>1, <2>2 DEF ServiceInv, Found, Stopped, Running, Names, Managing
  <2>4. Starting' => cmd # "start" /\ (cmd = "hooks" => service' = before'.service)
    BY <1>1 DEF Starting, ServiceInv, Found, Running, Names
  <2>. QED BY <1>1, <2>1, <2>2, <2>3, <2>4 DEF ServiceInv
<1>5. CASE Reports
  <2>1. /\ cleaning = TRUE /\ cleaning' = TRUE /\ errors' = TRUE /\ torn \subseteq torn'
        /\ Past("service") => Past("service")'
        /\ Past("bootout") => Past("bootout")'
    BY <1>5 DEF Reports, Past
  <2>2. Found' /\ Stopped'
    BY <1>1, <1>6, <2>1 DEF ServiceInv, Found, Stopped, Running, Names
  <2>. QED BY <2>1, <2>2 DEF ServiceInv
<1>. QED BY <1>2, <1>3, <1>4, <1>5 DEF Passing

\* An update that has switched the link may find its service stopped from then on.
LEMMA ActivateService ==
  ASSUME Base, CurrentInv, ServiceInv, Activate PROVE ServiceInv'
<1>1. /\ Running /\ Moves /\ cleaning = FALSE /\ Head(todo) = "activate" /\ (Goes \/ Turns)
      /\ UNCHANGED <<cmd, target, before>>
  BY ActivateWay DEF Moves, Steady
<1>2. cmd \in Switching /\ ~Past("activate")
  BY <1>1, GoesOnHead, Heads DEF Base, Running, Names, Switching, Past
<1>3. mine.link = NoLink
  BY <1>1, <1>2 DEF CurrentInv, Running, Names
<1>4. service' = service /\ mine'.pending = mine.pending /\ mine'.stopped = mine.stopped
  BY LinkKind DEF LinkStep
<1>5. CASE Goes
  <2>1. cleaning' = FALSE /\ Left' = Left \ {"activate"} /\ torn' = torn
    BY <1>1, <1>5 DEF Goes, Ongoing
  <2>2. /\ Past("service")' = Past("service") /\ Past("bootout")' = Past("bootout")
        /\ Past("pending")' = Past("pending")
    BY <2>1 DEF Past
  <2>3. Found' /\ Stopped'
    BY <1>1, <1>3, <1>4, <2>1, <2>2 DEF ServiceInv, Found, Stopped, Running, Names
  <2>. QED BY <1>1, <1>4, <2>1, <2>2, <2>3 DEF ServiceInv, Running, Names
<1>6. CASE Turns
  <2>1. cleaning' = TRUE
    BY <1>6 DEF Turns
  <2>2. mine'.link = NoLink
    BY <2>1 DEF Activate, Base, Typed, Memories
  <2>3. Passing({})
    BY <1>1, <1>6 DEF Passing
  <2>. QED BY <1>3, <1>4, <1>6, <2>2, <2>3, ServiceFrame
<1>. QED BY <1>1, <1>5, <1>6

\* A switch that failed came before the service was touched (_activate_managed_version).
LEMMA FaultSwitchedService ==
  ASSUME Base, CurrentInv, ServiceInv, FaultSwitched PROVE ServiceInv'
<1>1. Running /\ Moves /\ cleaning = FALSE /\ Head(todo) = "activate" /\ Turns
  BY FaultSwitchedWay
<1>2. cmd \in Switching /\ ~Past("activate")
  BY <1>1, GoesOnHead, Heads DEF Base, Running, Names, Switching, Past
<1>3. mine.link = NoLink
  BY <1>1, <1>2 DEF CurrentInv, Running, Names
<1>4. service' = service /\ mine'.pending = mine.pending /\ mine'.stopped = mine.stopped
  BY LinkKind DEF LinkStep
<1>5. Passing({})
  BY <1>1 DEF Passing
<1>. QED BY <1>1, <1>3, <1>4, <1>5, ServiceFrame

\* A stop of the service that uninstall has not noted is torn (uninstall, _boot_out).
LEMMA FaultStoppedService ==
  ASSUME Base, ServiceInv, FaultStopped PROVE ServiceInv'
<1>1. /\ Running /\ cleaning = FALSE /\ Head(todo) = "bootout" /\ Turns
      /\ UNCHANGED <<cmd, target, before>>
  BY FaultStoppedWay DEF Moves, Steady
<1>2. cmd = "uninstall"
  BY <1>1, GoesOnHead, Heads DEF Base, Running, Names
<1>3. cleaning' = TRUE /\ "service" \in torn'
  BY <1>1 DEF Turns, FaultStopped
<1>4. Found' /\ Stopped'
  BY <1>1, <1>2, <1>3 DEF Found, Stopped
<1>. QED BY <1>1, <1>2, <1>3, <1>4 DEF ServiceInv

\* An install notes that it is about to touch the service before it does.
LEMMA WriteActionService ==
  ASSUME Base, ServiceInv, WriteAction PROVE ServiceInv'
<1>1. /\ Running /\ cleaning = FALSE /\ cleaning' = FALSE /\ Left' = Left \ {Head(todo)}
      /\ Head(todo) \in {"pending", "done"} /\ UNCHANGED <<cmd, target, before, torn>>
  BY WriteActionWay DEF Moves, Steady, Goes, Ongoing
<1>2. /\ service' = service /\ mine'.link = mine.link /\ mine'.stopped = mine.stopped
  BY FileKind DEF FileStep
<1>3. mine'.pending = (Head(todo) = "pending" \/ mine.pending)
  <2>1. Doing("pending") <=> Head(todo) = "pending"
    BY <1>1 DEF Doing, Running, Names
  <2>2. mine'.pending = (Doing("pending") \/ mine.pending)
    BY DEF WriteAction, Base, Typed, Memories
  <2>. QED BY <2>1, <2>2
<1>4. /\ Past("service")' = Past("service") /\ Past("bootout")' = Past("bootout")
      /\ Past("pending")' = (Past("pending") \/ Head(todo) = "pending")
  BY <1>1 DEF Past
<1>5. Found' /\ Stopped'
  BY <1>1, <1>2, <1>3, <1>4 DEF ServiceInv, Found, Stopped, Running, Names
<1>. QED BY <1>1, <1>2, <1>3, <1>4, <1>5 DEF ServiceInv, Running, Names

\* When the service is touched, an install has said so and an update has switched.
LEMMA Touching ==
  ASSUME Base, CurrentInv, ServiceInv, Running, ~cleaning, Head(todo) = "service"
  PROVE  /\ cmd \notin {"hooks", "uninstall"}
         /\ cmd = "install" => mine.pending
         /\ cmd = "update" => mine.link # NoLink
<1>1. cmd \notin {"hooks", "uninstall"}
  BY GoesOnHead, Heads DEF Base, Typed, Running
<1>2. cmd = "install" => Past("pending")
  BY Order DEF Base, Typed, Running
<1>3. cmd = "update" => Past("activate")
  BY Order DEF Base, Typed, Running
<1>. QED BY <1>1, <1>2, <1>3 DEF ServiceInv, CurrentInv, Switching, Running, Names

\* A service that answers runs the target.
LEMMA StartServiceService ==
  ASSUME Base, CurrentInv, ServiceInv, StartService PROVE ServiceInv'
<1>1. /\ Running /\ Moves /\ cleaning = FALSE /\ Head(todo) = "service" /\ (Goes \/ Turns)
      /\ UNCHANGED <<cmd, target, before>> /\ mine' = mine
  BY StartServiceWay DEF Moves, Steady, StartService
<1>2. /\ cmd \notin {"hooks", "uninstall"} /\ (cmd = "install" => mine.pending)
      /\ cmd = "update" => mine.link # NoLink
  BY <1>1, Touching
<1>3. CASE Goes
  <2>1. cleaning' = FALSE /\ Left' = Left \ {"service"}
    BY <1>1, <1>3 DEF Goes, Ongoing
  <2>2. cmd \in Managing => service' = target
    BY <1>1, <2>1 DEF StartService, Conflict, Failing, Managing
  <2>3. Past("bootout")' = Past("bootout") /\ Past("pending")' = Past("pending")
    BY <2>1 DEF Past
  <2>4. Found' /\ Stopped'
    BY <1>1, <1>2, <2>1 DEF Found, Stopped
  <2>. QED BY <1>1, <1>2, <2>1, <2>2, <2>3, <2>4 DEF ServiceInv, Running, Names
<1>4. CASE Turns
  <2>1. cleaning' = TRUE
    BY <1>4 DEF Turns
  <2>2. /\ cmd # "start" => ~Past("service")'
        /\ cmd \in Managing => ~Past("bootout")'
    BY <1>1, <1>2, <1>4, TurnItems
  <2>3. Found' /\ Stopped'
    BY <1>1, <1>2, <2>1, <2>2 DEF Found, Stopped, Managing
  <2>. QED BY <1>1, <2>1, <2>2, <2>3 DEF ServiceInv, Starting
<1>. QED BY <1>1, <1>3, <1>4

\* A stop of the service, which remembers whether it ran.
LEMMA BootoutService ==
  ASSUME Base, ServiceInv, Bootout PROVE ServiceInv'
<1>1. /\ Running /\ Head(todo) = "bootout" /\ Left' = Left \ {"bootout"} /\ "bootout" \in Left
      /\ UNCHANGED <<cmd, target, before, cleaning, errors, torn>> /\ cleaning \in BOOLEAN
  BY BootoutWay, GoesOnHead DEF Moves, Steady, Goes, Ongoing, Base, Typed
<1>2. /\ service' = (IF cmd \in {"install", "start"} /\ ~mine.pending THEN service ELSE None)
      /\ mine'.stopped = (service # None)
      /\ mine'.link = mine.link /\ mine'.pending = mine.pending /\ mine'.attempted = mine.attempted
  <2>1. mine' = [mine EXCEPT !.stopped = service # None]
    BY DEF Bootout
  <2>. QED BY <2>1 DEF Bootout, Base, Typed, Memories
<1>3. IF cleaning THEN cmd \in {"update", "rollback", "repair", "install", "start", "first"}
                  ELSE cmd = "uninstall"
  BY <1>1, Heads DEF Base, Running, Names
<1>4. Past("service")' = Past("service") /\ Past("bootout")' /\ ~Past("bootout")
  BY <1>1 DEF Past
<1>5. CASE ~cleaning
  <2>1. ("service" \notin torn => service = before.service) /\ service' = None
    BY <1>1, <1>2, <1>3, <1>4, <1>5 DEF ServiceInv, Found, Running, Names
  <2>2. Found' /\ Stopped'
    BY <1>1, <1>2, <1>3, <1>4, <1>5, <2>1 DEF Found, Stopped
  <2>. QED BY <1>1, <1>2, <1>3, <1>4, <1>5, <2>1, <2>2 DEF ServiceInv, Managing
<1>6. CASE cleaning
  <2>1. cmd \in Managing => ~Past("service")
    BY <1>1, <1>6, StopsFirst DEF Managing
  <2>2. cmd = "update" /\ mine.link = NoLink => service = before.service
    BY <1>1, <1>4 DEF ServiceInv, Found, Running, Names
  <2>3. cmd = "install" /\ ~mine.pending /\ ~Past("service") => service = before.service
    BY <1>1 DEF ServiceInv, Found, Running, Names
  <2>4. Found' /\ Stopped'
    BY <1>1, <1>2, <1>3, <1>4, <1>6, <2>2, <2>3 DEF Found, Stopped
  <2>. QED BY <1>1, <1>3, <1>4, <1>6, <2>1, <2>4 DEF ServiceInv, Starting, Managing
<1>. QED BY <1>1, <1>5, <1>6

\* The service that ran the version found runs it again.
LEMMA RestartServiceService ==
  ASSUME Base, CurrentInv, ServiceInv, RestartService PROVE ServiceInv'
<1>1. /\ Running /\ Moves /\ cleaning = TRUE /\ cleaning' = TRUE /\ Head(todo) = "service"
      /\ UNCHANGED <<cmd, target, before, mine>> /\ Meddled' = Meddled
  <2>1. Running /\ Moves /\ cleaning = TRUE /\ Head(todo) = "service" /\ (Goes \/ Reports) /\ mine' = mine
    BY RestartServiceWay DEF RestartService
  <2>. QED BY <2>1 DEF Moves, Steady, Meddled, Goes, Reports, Ongoing
<1>2. Past("service")' /\ Left' \subseteq Left
  <2>1. todo' = Tail(todo)
    BY <1>1 DEF RestartService, Advance, Conflict, Failing
  <2>2. Items(Tail(todo)) = Left \ {Head(todo)}
    BY <1>1, TrackTyped, TailEnds DEF Base, Typed, Running, OnTrack, Names, Left
  <2>. QED BY <1>1, <2>1, <2>2 DEF Past, Left
<1>3. ~errors' => ~errors /\ (IF Restarted = None THEN service' = service
                              ELSE Healthy(Restarted) /\ service' = Restarted)
  <2>1. Advance => errors' = errors
    BY DEF Advance
  <2>2. Conflict => errors' = TRUE
    BY <1>1, Conflicting DEF Turns, Reports
  <2>. QED BY <2>1, <2>2 DEF RestartService, Base, Typed
<1>4. /\ cmd \in {"update", "rollback", "install"} => Past("bootout") /\ Past("version")
      /\ cmd = "repair" => Past("bootout")
  BY <1>1, Order DEF Base, Running
<1>5. cmd # "hooks" /\ ~Past("service")
  BY <1>1, GoesOnHead, Heads DEF Base, Running, Past
<1>6. Found' /\ Stopped'
  <2>1. cmd = "update" => Past("bootout")'
    BY <1>2, <1>4 DEF Past
  <2>2. cmd = "update" /\ mine.link = NoLink /\ ~errors => mine.stopped = (before.service # None)
    BY <1>1, <1>4 DEF ServiceInv, Found, Running, Names
  <2>. QED BY <1>1, <1>2, <1>3, <1>5, <2>1, <2>2 DEF Found, Stopped
<1>7. ASSUME Starting, ~Meddled, ~errors', "service" \notin torn' PROVE service' = before.service
  <2>7. torn' = torn
    BY TornStays DEF RestartService
  <2>1. ~errors /\ before.service = before.current.to /\ cmd \notin {"start", "first", "hooks"}
    BY <1>3, <1>5, <1>7 DEF Starting
  <2>2. CASE cmd = "update"
    <3>1. Restarted = before.current.to /\ service = None
      BY <1>1, <1>4, <1>5, <2>1, <2>2 DEF Restarted, ServiceInv, Stopped, Running, Names
    <3>. QED BY <1>3, <1>7, <2>1, <3>1
  <2>3. CASE cmd = "install"
    <3>1. Restarted = before.current.to /\ (mine.pending => service = None)
          /\ (~mine.pending => service = before.service)
      BY <1>1, <1>4, <1>5, <2>1, <2>3 DEF Restarted, ServiceInv, Found, Stopped, Running, Names
    <3>. QED BY <1>3, <1>7, <2>1, <3>1
  <2>4. CASE cmd = "rollback"
    <3>4. "link" \notin torn
      BY <1>1, <1>4, <1>7, <2>1, <2>4 DEF CurrentInv
    <3>1. service = None /\ current.to = before.current.to
      BY <1>1, <1>4, <1>5, <1>7, <2>1, <2>4, <3>4
         DEF ServiceInv, Stopped, CurrentInv, Unknown, Running, Names
    <3>2. CASE before.current = NoLink
      <4>1. current.to = None /\ before.service = None
        BY <2>1, <3>1, <3>2 DEF NoLink
      <4>2. Restarted # None => ~Healthy(Restarted)
        BY <4>1 DEF Healthy
      <4>. QED BY <1>3, <1>7, <3>1, <4>1, <4>2
    <3>3. CASE before.current # NoLink
      <4>1. Restarted = before.current.to
        BY <2>4, <3>3 DEF Restarted
      <4>. QED BY <1>3, <1>7, <2>1, <3>1, <4>1
    <3>. QED BY <3>2, <3>3
  <2>5. CASE cmd = "repair"
    <3>1. Restarted = before.current.to /\ service = None
      BY <1>1, <1>4, <1>5, <2>1, <2>5 DEF Restarted, ServiceInv, Stopped, Running, Names, Base, Shared
    <3>. QED BY <1>3, <1>7, <2>1, <3>1
  <2>6. CASE cmd = "uninstall"
    <3>1. IF mine.stopped THEN before.service # None ELSE service = before.service
      BY <1>1, <1>5, <1>7, <2>6, <2>7 DEF ServiceInv, Found
    <3>2. Restarted = IF mine.stopped THEN before.current.to ELSE None
      BY <2>6 DEF Restarted
    <3>. QED BY <1>3, <1>7, <2>1, <3>1, <3>2
  <2>. QED BY <1>1, <2>1, <2>2, <2>3, <2>4, <2>5, <2>6 DEF Running, Names
<1>8. Starting' = Starting
  BY <1>1 DEF Starting
<1>. QED BY <1>1, <1>6, <1>7, <1>8 DEF ServiceInv

\* A failed start may leave the service stopped; its cleanup has the start before it.
LEMMA FaultService ==
  ASSUME Base, CurrentInv, ServiceInv, Fault PROVE ServiceInv'
<1>1. /\ Running /\ Moves /\ Turns /\ UNCHANGED <<cmd, target, before>> /\ cleaning = FALSE
      /\ mine'.link = mine.link /\ mine'.pending = mine.pending /\ mine'.stopped = mine.stopped
  BY FaultKind DEF Moves, Steady, Turns
<1>2. CASE Head(todo) = "service"
  <2>1. /\ cmd \notin {"hooks", "uninstall"} /\ (cmd = "install" => mine.pending)
        /\ cmd = "update" => mine.link # NoLink
    BY <1>1, <1>2, Touching
  <2>2. cleaning' = TRUE
    BY <1>1 DEF Turns
  <2>3. /\ cmd # "start" => ~Past("service")'
        /\ cmd \in Managing => ~Past("bootout")'
    BY <1>1, <2>1, TurnItems
  <2>4. Found' /\ Stopped'
    BY <1>1, <2>1, <2>2, <2>3 DEF Found, Stopped, Managing
  <2>. QED BY <1>1, <2>2, <2>3, <2>4 DEF ServiceInv, Starting
<1>3. CASE Head(todo) # "service"
  <2>1. service' = service
    BY <1>3, FaultKind
  <2>2. Passing({})
    BY <1>1 DEF Passing
  <2>. QED BY <1>1, <2>1, <2>2, ServiceFrame
<1>. QED BY <1>2, <1>3

\* Every step keeps the invariant of the service.
LEMMA StepService == ASSUME Base, CurrentInv, ServiceInv, Step PROVE ServiceInv'
<1>1. CASE HookStep
  <2>1. HookSteps \cap ServiceFrom = {}
    BY DEF HookSteps, ServiceFrom
  <2>. QED BY <1>1, <2>1, HookKind, ServiceFrame DEF Recalling
<1>2. CASE Publish \/ DropCurrent \/ Quarantine \/ DeleteQuarantined \/ RestoreVersion
           \/ RemoveRelease \/ RestoreReleases \/ FaultPublished \/ FaultDropped
  <2>1. LinkSteps \cap ServiceFrom = {} /\ LinkStep
    BY <1>2 DEF LinkSteps, ServiceFrom, LinkStep
  <2>2. \/ mine' = mine \/ mine' = [mine EXCEPT !.release = target \notin releases]
        \/ mine' = [mine EXCEPT !.dropped = TRUE]
    BY <1>2 DEF Publish, DropCurrent, Quarantine, DeleteQuarantined, RestoreVersion, RemoveRelease,
                RestoreReleases, FaultPublished, FaultDropped
  <2>3. mine'.link = mine.link /\ mine'.attempted = mine.attempted
    BY <2>2 DEF Base, Typed, Memories
  <2>. QED BY <2>1, <2>3, LinkKind, ServiceFrame
<1>3. CASE WriteFile \/ UnlinkFile \/ RestoreFile \/ WithdrawAction
  <2>1. Passing(FileSteps \ {"pending", "done"})
    BY <1>3, WriteFileWay, UnlinkFileWay, RestoreFileWay, WithdrawActionWay DEF Passing, FileSteps
  <2>2. (FileSteps \ {"pending", "done"}) \cap ServiceFrom = {} /\ FileStep
    BY <1>3 DEF FileSteps, ServiceFrom, FileStep
  <2>3. mine' = mine
    BY <1>3 DEF WriteFile, UnlinkFile, RestoreFile, WithdrawAction
  <2>. QED BY <2>1, <2>2, <2>3, FileKind, ServiceFrame
<1>5. CASE FaultInAction \/ FaultUnlinked \/ FaultAtTheEnd
  <2>1. Passing({})
    BY <1>5, FaultInActionWay, FaultUnlinkedWay, EndMoves DEF FaultAtTheEnd, Doing, Passing, Running, Names
  <2>2. FileStep
    BY <1>5 DEF FileStep
  <2>3. mine'.pending = mine.pending
    BY <1>5 DEF FaultInAction, FaultUnlinked, FaultAtTheEnd, Base, Typed, Memories
  <2>. QED BY <2>1, <2>2, <2>3, FileKind, ServiceFrame
<1>4. CASE OtherStep
  <2>1. OtherSteps \cap ServiceFrom = {}
    BY DEF OtherSteps, ServiceFrom
  <2>. QED BY <1>4, <2>1, OtherKind, ServiceFrame
<1>. QED BY <1>1, <1>2, <1>3, <1>4, <1>5, StepKinds, ActivateService, WriteActionService,
            FaultSwitchedService, FaultStoppedService, StartServiceService, BootoutService,
            RestartServiceService, FaultService
         DEF LinkStep, FileStep, ServiceStep

-----------------------------------------------------------------------------
(* The action file and the edits by other programs *)

\* A step that leaves the action file alone, or puts back or removes one of an earlier
\* command: it asks for no stop that was not asked for.
LEMMA ActionFrame ==
  ASSUME Base, ActionInv, NEW S, Passing(S), "done" \notin S,
         \/ files'.action = files.action
         \/ cleaning = TRUE /\ files'.action = before.files.action
         \/ cmd = "uninstall" /\ files'.action = NoFiles.action
  PROVE  ActionInv'
<1>1. UNCHANGED <<cmd, before, scheduled, asked>> /\ Running
  BY DEF Passing, Moves, Steady
<1>2. Wanting(files)' => Wanting(files) \/ Wanting(before.files)
  <2>1. files'.action = NoFiles.action => ~Wanting(files)'
    BY <1>1 DEF Wanting, NoFiles
  <2>. QED BY <1>1, <2>1 DEF Wanting
<1>3. Wanting(before.files)' <=> Wanting(before.files)
  BY <1>1 DEF Wanting
<1>4. /\ Wanting(files)' => asked'
      /\ cmd' # "none" /\ Wanting(before.files)' => asked'
  BY <1>1, <1>2, <1>3 DEF ActionInv, Running, Names
<1>5. ASSUME ~cleaning', ~errors', Past("done")', cmd' \notin {"none", "hooks", "uninstall"}
      PROVE  files'.action.gen > scheduled'
  <2>1. ~cleaning /\ ~errors /\ Past("done")
    BY <1>5 DEF Passing, Stays, Goes, Skips, Turns, Reports, Late, Ongoing, Past
  <2>. QED BY <1>1, <1>5, <2>1 DEF ActionInv
<1>. QED BY <1>4, <1>5 DEF ActionInv

\* A command that writes the action file, for certain or not, has the newest generation.
LEMMA NewActionAction ==
  ASSUME Base, ActionInv, WriteAction \/ FaultInAction \/ FaultAtTheEnd, NewAction PROVE ActionInv'
<1>1. UNCHANGED <<cmd, before, scheduled, asked>> /\ Running
  <2>1. CASE FaultAtTheEnd
    BY <2>1, EndMoves DEF FaultAtTheEnd, Doing, Moves, Steady, Running, Names
  <2>. QED BY <2>1, WriteActionWay, FaultInActionWay DEF Moves, Steady
<1>2. files'.action.gen = gens + 1
  BY DEF NewAction, Base, Typed, Files
<1>3. gens + 1 > scheduled /\ gens + 1 # scheduled
  BY DEF Base, Typed
<1>4. ~Wanting(files)'
  BY <1>1, <1>2, <1>3 DEF Wanting
<1>5. Wanting(before.files)' <=> Wanting(before.files)
  BY <1>1 DEF Wanting
<1>. QED BY <1>1, <1>2, <1>3, <1>4, <1>5 DEF ActionInv

\* Every step keeps the invariant of the action file.
LEMMA StepAction == ASSUME Base, ActionInv, Step PROVE ActionInv'
<1>. USE DEF HookSteps, LinkSteps, FileSteps, ServiceSteps, OtherSteps
<1>1. CASE HookStep
  BY <1>1, HookKind, ActionFrame
<1>2. CASE LinkStep
  BY <1>2, LinkKind, ActionFrame
<1>3. CASE ServiceStep
  BY <1>3, ServiceKind, ActionFrame
<1>4. CASE OtherStep
  BY <1>4, OtherKind, ActionFrame
<1>5. CASE WriteFile
  <2>1. Passing(FileSteps \ {"done"})
    BY <1>5, WriteFileWay DEF Passing
  <2>2. files'.action = files.action
    BY <1>5 DEF WriteFile, Written, Base, Typed, Files
  <2>. QED BY <2>1, <2>2, ActionFrame
<1>6. CASE UnlinkFile \/ FaultUnlinked
  <2>1. Passing(FileSteps \ {"done"}) /\ cmd = "uninstall"
    BY <1>6, UnlinkFileWay, FaultUnlinkedWay, GoesOnHead, Heads DEF Passing, Base, Running, Names
  <2>2. files'.action \in {files.action, NoFiles.action}
    <3>1. ASSUME NEW i \in Present, files' = [files EXCEPT ![FileOrder[i]] = NoFiles[FileOrder[i]]]
          PROVE  files'.action \in {files.action, NoFiles.action}
      BY <3>1 DEF Base, Typed, Files
    <3>. QED BY <1>6, <3>1 DEF UnlinkFile, FaultUnlinked, Unlink
  <2>. QED BY <2>1, <2>2, ActionFrame
<1>7. CASE RestoreFile \/ WithdrawAction
  <2>1. Passing(FileSteps \ {"done"}) /\ cleaning = TRUE
    BY <1>7, RestoreFileWay, WithdrawActionWay DEF Passing
  <2>2. files'.action \in {files.action, before.files.action}
    <3>1. \/ files' = files \/ files' = [files EXCEPT !.action = before.files.action]
          \/ \E f \in DOMAIN files : files' = [files EXCEPT ![f] = before.files[f]]
      BY <1>7 DEF RestoreFile, WithdrawAction
    <3>. QED BY <3>1 DEF Base, Typed, Files
  <2>. QED BY <2>1, <2>2, ActionFrame
<1>8. CASE Fault
  <2>1. Passing({})
    BY <1>8, FaultKind DEF Passing
  <2>2. files' = files \/ files' = Written(Head(todo))
    BY <1>8, FaultKind
  <2>3. files'.action = files.action
    BY <2>2 DEF Written, Base, Typed, Files
  <2>. QED BY <2>1, <2>3, ActionFrame
<1>9. CASE FaultAtTheEnd /\ files' = files
  <2>1. Passing({})
    BY <1>9, EndMoves DEF FaultAtTheEnd, Doing, Passing, Running, Names
  <2>. QED BY <1>9, <2>1, ActionFrame
<1>10. CASE WriteAction \/ FaultInAction \/ (FaultAtTheEnd /\ files' # files)
  <2>1. NewAction
    BY <1>10 DEF WriteAction, FaultInAction, FaultAtTheEnd
  <2>. QED BY <1>10, <2>1, NewActionAction
<1>. QED BY <1>1, <1>2, <1>3, <1>4, <1>5, <1>6, <1>7, <1>8, <1>9, <1>10, StepKinds DEF FileStep

\* A step of a careful command that keeps the copies it finds and what it remembers.
LEMMA EditFrame ==
  ASSUME Base, EditInv, cmd' = cmd, before' = before,
         cmd \in Careful => /\ kept \subseteq kept'
                            /\ mine'.hook = mine.hook /\ mine'.noted = mine.noted
                            /\ writer' = writer \/ writer'.at # "claimed"
  PROVE  EditInv'
BY DEF EditInv

\* Outside the hook steps only an install removes a copy.
LEMMA RestingEdit ==
  ASSUME Base, LinkStep \/ FileStep \/ ServiceStep \/ OtherStep \/ Fault
  PROVE  /\ UNCHANGED <<cmd, before, hook>>
         /\ cmd \in Careful => /\ kept \subseteq kept'
                               /\ mine'.hook = mine.hook /\ mine'.noted = mine.noted
         /\ \/ writer' = writer
            \/ writer' = NoWriter /\ writer.temp = NoHook
<1>1. CASE LinkStep \/ FileStep \/ ServiceStep
  BY <1>1, LinkKind, FileKind, ServiceKind DEF Passing, Moves, Steady
<1>2. CASE OtherStep
  <2>1. /\ Running /\ UNCHANGED <<cmd, before, hook, mine, writer>>
    BY <1>2, OtherKind DEF Passing, Moves, Steady
  <2>2. cmd \in Careful => kept' = kept
    <3>1. CASE ForgetBackup
      BY <3>1, ForgetBackupWay, GoesOnHead, Heads DEF Base, Running, Names, Careful
    <3>2. CASE Smoke \/ FaultInCleanup
      BY <3>2 DEF Smoke, FaultInCleanup, disk
    <3>. QED BY <1>2, <3>1, <3>2 DEF OtherStep
  <2>. QED BY <2>1, <2>2
<1>3. CASE Fault
  <2>1. /\ UNCHANGED <<cmd, before, hook, kept>> /\ writer' = NoWriter
        /\ writer.at \in {"idle", "exchange", "plain", "note"}
    BY <1>3, FaultKind DEF Moves, Steady
  <2>2. writer.temp = NoHook
    BY <2>1 DEF Base, Writing
  <2>3. cmd \in Careful => mine'.hook = mine.hook /\ mine'.noted = mine.noted
    BY <1>3, FaultKind DEF Careful
  <2>. QED BY <2>1, <2>2, <2>3
<1>. QED BY <1>1, <1>2, <1>3

\* What the writer commits is its source, which is kept by then.
LEMMA CommitHookEdit == ASSUME Base, EditInv, CommitHook PROVE EditInv'
<1>1. UNCHANGED <<cmd, before>> /\ Running
  BY CommitHookWay DEF Moves, Steady
<1>2. /\ writer.temp = writer.source /\ kept' = Keeping({writer.temp.edit}) /\ writer'.at # "claimed"
      /\ mine'.hook = Merged
  <2>1. mine' = [mine EXCEPT !.hook = Merged, !.noted = cmd \notin Noters, !.backup = writer.temp.edit]
    BY DEF CommitHook
  <2>2. writer' = NoWriter \/ writer' = [NoWriter EXCEPT !.at = "note"]
    BY DEF CommitHook
  <2>. QED BY <2>1, <2>2 DEF CommitHook, NoWriter, Base, Typed, Memories
<1>3. Merged.edit \in {0, writer.source.edit}
  BY MergedTyped
<1>4. Merged.edit \in kept' \cup {-1, 0}
  BY <1>2, <1>3 DEF Keeping
<1>. QED BY <1>1, <1>2, <1>4 DEF EditInv

\* The same when the commit failed after its effect.
LEMMA FaultExchangedEdit == ASSUME Base, EditInv, FaultExchanged PROVE EditInv'
<1>1. UNCHANGED <<cmd, before>> /\ Running
  BY FaultExchangedWay DEF Moves, Steady
<1>. SUFFICES ASSUME cmd \in Careful PROVE EditInv'
  BY <1>1 DEF EditInv
<1>2. writer.temp = writer.source /\ kept' = Keeping({writer.temp.edit}) /\ writer'.at # "claimed"
  BY DEF FaultExchanged, NoWriter
<1>3. mine' = mine \/ mine'.hook = Merged
  <2>1. mine' \in {mine, [mine EXCEPT !.hook = Merged, !.noted = TRUE]}
    BY DEF FaultExchanged, Careful
  <2>. QED BY <2>1 DEF Base, Typed, Memories
<1>4. Merged.edit \in kept' \cup {-1, 0} /\ kept \subseteq kept'
  BY <1>2, MergedTyped DEF Keeping
<1>. QED BY <1>1, <1>2, <1>3, <1>4 DEF EditInv

\* What a cleanup claims is what was committed, or what was found.
LEMMA ClaimHookEdit == ASSUME Base, EditInv, ClaimHook PROVE EditInv'
<1>1. UNCHANGED <<cmd, before, mine, kept>> /\ writer.at = "idle"
  BY ClaimHookWay DEF Moves, Steady, ClaimHook
<1>2. CASE writer' = writer
  BY <1>1, <1>2, EditFrame
<1>3. CASE writer' # writer
  <2>1. /\ hook = IF mine.noted THEN mine.hook ELSE before.hook
        /\ writer'.temp = hook
    BY <1>3 DEF ClaimHook, NoWriter
  <2>. QED BY <1>1, <2>1 DEF EditInv
<1>. QED BY <1>2, <1>3

\* The writer and the cleanups remember only what is kept.
LEMMA HookEdit == ASSUME Base, EditInv, HookStep PROVE EditInv'
<1>1. UNCHANGED <<cmd, before>> /\ Running
  BY HookKind DEF Passing, Moves, Steady
<1>2. ASSUME NEW h, cmd \in Careful PROVE Noting(h) = mine /\ NotingFailure(h) = mine
  BY <1>2 DEF Noting, NotingFailure, Noters, Careful
<1>3. ASSUME NEW s PROVE kept \subseteq Keeping(s)
  BY DEF Keeping
<1>4. NoWriter.at = "idle"
  BY DEF NoWriter
<1>5. CASE ReadHook
  <2>1. /\ kept' = kept /\ writer.at = "idle" /\ (mine' = Noting(hook) \/ mine' = mine)
        /\ \/ writer' = writer
           \/ \E l \in {"exchange", "plain"} : writer' = [writer EXCEPT !.at = l, !.source = hook]
    BY <1>5 DEF ReadHook, disk
  <2>2. writer' = writer \/ writer'.at # "claimed"
    BY <2>1 DEF Base, Typed, Writers
  <2>. QED BY <1>1, <1>2, <2>1, <2>2, EditFrame
<1>6. CASE RefuseHook
  BY <1>1, <1>2, <1>3, <1>4, <1>6, EditFrame DEF RefuseHook
<1>7. CASE ExchangeHook
  <2>1. kept' = kept /\ mine' = mine /\ writer'.at # "claimed"
    BY <1>7 DEF ExchangeHook, Base, Typed, Writers
  <2>. QED BY <1>1, <2>1, EditFrame
<1>8. CASE YieldHook
  BY <1>1, <1>2, <1>3, <1>4, <1>8, EditFrame DEF YieldHook
<1>9. CASE RecoverHook
  <2>1. kept' = Keeping({writer.temp.edit, Merged.edit}) /\ (mine' = mine \/ \E h \in {hook, hook'} : mine' = NotingFailure(h))
    BY <1>9 DEF RecoverHook
  <2>2. writer'.at # "claimed"
    BY <1>4, <1>9 DEF RecoverHook, Base, Typed, Writers
  <2>. QED BY <1>1, <1>2, <1>3, <2>1, <2>2, EditFrame
<1>10. CASE ReplacePlainly
  <2>1. cmd \notin Careful
    BY <1>10 DEF ReplacePlainly, Base, Writing, Careful
  <2>. QED BY <1>1, <2>1 DEF EditInv
<1>11. CASE NoteHook
  <2>1. cmd \notin Careful
    BY <1>11 DEF NoteHook, Base, Writing, Careful, Noters
  <2>. QED BY <1>1, <2>1 DEF EditInv
<1>12. CASE PutHookBack \/ FaultInClaim
  BY <1>1, <1>3, <1>4, <1>12, EditFrame DEF PutHookBack, FaultInClaim
<1>13. CASE CompareHook \/ ReplaceWithOld
  <2>1. cmd \notin Careful
    BY <1>13, CompareHookWay, ReplaceWithOldWay, HookCommands DEF Careful
  <2>. QED BY <1>1, <2>1 DEF EditInv
<1>. QED BY <1>5, <1>6, <1>7, <1>8, <1>9, <1>10, <1>11, <1>12, <1>13, CommitHookEdit, ClaimHookEdit,
            FaultExchangedEdit
         DEF HookStep

\* Every step keeps the invariant of the copies.
LEMMA StepEdit == ASSUME Base, EditInv, Step PROVE EditInv'
<1>1. CASE HookStep
  BY <1>1, HookEdit
<1>2. CASE LinkStep \/ FileStep \/ ServiceStep \/ OtherStep \/ Fault
  <2>1. NoWriter.at = "idle"
    BY DEF NoWriter
  <2>. QED BY <1>2, <2>1, RestingEdit, EditFrame
<1>. QED BY <1>1, <1>2, StepKinds

-----------------------------------------------------------------------------
(* No only copy of an edit goes *)

Copies == OnDisk \ {-1, 0}

\* While the writer of a careful command has a configuration in its hands, a name next to
\* the file, a backup or a conflict file holds every edit there was.
LEMMA WriterKeeps ==
  ASSUME Base, EditInv, cmd \in Careful, HookStep
  PROVE  Copies \subseteq OnDisk'
<1>. USE DEF Copies, OnDisk
<1>1. NoHook.edit = -1 /\ NoWriter.temp = NoHook
  BY DEF NoHook, NoWriter
<1>2. ASSUME NEW s PROVE kept \cup (s \ {-1, 0}) = Keeping(s)
  BY DEF Keeping
<1>3. writer.at \notin {"exchanged", "claimed"} => writer.temp.edit = -1
  BY <1>1 DEF Base, Writing
<1>4. writer \in Writers
  BY DEF Base, Typed
<1>5. CASE ReadHook
  <2>1. /\ kept' = kept /\ hook' = hook
        /\ \/ writer' = writer
           \/ \E l \in {"exchange", "plain"} : writer' = [writer EXCEPT !.at = l, !.source = hook]
    BY <1>5 DEF ReadHook, disk
  <2>2. writer'.temp = writer.temp
    BY <1>4, <2>1 DEF Writers
  <2>. QED BY <2>1, <2>2
<1>6. CASE RefuseHook
  <2>1. kept \subseteq kept' /\ hook' = hook /\ writer.temp.edit = -1
    BY <1>2, <1>3, <1>6 DEF RefuseHook
  <2>. QED BY <2>1
<1>7. CASE ExchangeHook
  <2>1. kept' = kept /\ writer'.temp = hook /\ writer.temp.edit = -1
    BY <1>3, <1>4, <1>7 DEF ExchangeHook, Writers
  <2>. QED BY <2>1
<1>8. CASE CommitHook \/ YieldHook \/ FaultExchanged
  <2>1. kept' = Keeping({writer.temp.edit}) /\ hook' = hook
    BY <1>8 DEF CommitHook, YieldHook, FaultExchanged
  <2>2. kept \cup ({writer.temp.edit} \ {-1, 0}) = kept'
    BY <1>2, <2>1
  <2>. QED BY <2>1, <2>2
<1>9. CASE RecoverHook
  <2>1. kept' = Keeping({writer.temp.edit, Merged.edit})
    BY <1>9 DEF RecoverHook
  <2>2. kept \cup ({writer.temp.edit, Merged.edit} \ {-1, 0}) = kept'
    BY <1>2, <2>1
  <2>3. hook' = hook \/ (hook' = writer.temp /\ hook = Merged) \/ writer'.temp = hook
    BY <1>4, <1>9 DEF RecoverHook, Writers
  <2>. QED BY <2>2, <2>3
<1>10. CASE ClaimHook
  <2>1. kept' = kept /\ writer.temp.edit = -1
    BY <1>3, <1>10 DEF ClaimHook
  <2>2. (hook' = hook /\ writer' = writer) \/ writer'.temp = hook
    BY <1>10 DEF ClaimHook, NoWriter
  <2>. QED BY <2>1, <2>2
<1>11. CASE PutHookBack
  <2>1. writer.temp = before.hook \/ writer.temp.edit \in kept \cup {-1, 0}
    BY <1>11 DEF PutHookBack, EditInv
  <2>2. CASE before.hook = NoHook
    <3>1. hook' = hook /\ kept' = kept
      BY <1>11, <2>2 DEF PutHookBack
    <3>. QED BY <1>1, <2>1, <2>2, <3>1
  <2>3. CASE before.hook # NoHook /\ hook = NoHook
    <3>1. hook' = before.hook /\ kept' = kept
      BY <1>11, <2>3 DEF PutHookBack
    <3>. QED BY <1>1, <2>1, <2>3, <3>1
  <2>4. CASE before.hook # NoHook /\ hook # NoHook
    <3>1. hook' = hook /\ kept' = Keeping({writer.temp.edit})
      BY <1>11, <2>4 DEF PutHookBack
    <3>2. kept \cup ({writer.temp.edit} \ {-1, 0}) = kept'
      BY <1>2, <3>1
    <3>. QED BY <3>1, <3>2
  <2>. QED BY <2>2, <2>3, <2>4
<1>14. CASE FaultInClaim
  <2>1. \/ hook = NoHook /\ hook' = writer.temp /\ kept' = kept
        \/ hook' = hook /\ kept' = Keeping({writer.temp.edit})
    BY <1>14 DEF FaultInClaim
  <2>2. kept \cup ({writer.temp.edit} \ {-1, 0}) = Keeping({writer.temp.edit})
    BY <1>2
  <2>. QED BY <1>1, <2>1, <2>2
<1>12. CASE ReplacePlainly \/ NoteHook
  <2>1. cmd \notin Careful
    BY <1>12 DEF ReplacePlainly, NoteHook, Base, Writing, Careful, Noters
  <2>. QED BY <2>1
<1>13. CASE CompareHook \/ ReplaceWithOld
  <2>1. cmd \notin Careful
    BY <1>13, CompareHookWay, ReplaceWithOldWay, HookCommands DEF Careful
  <2>. QED BY <2>1
<1>. QED BY <1>5, <1>6, <1>7, <1>8, <1>9, <1>10, <1>11, <1>12, <1>13, <1>14
         DEF HookStep

\* Another step, or the death of the command, leaves what the writer held behind.
LEMMA NextKeeps ==
  ASSUME Base, EditInv, Next, edits' = edits, cmd \in Careful
  PROVE  Copies \subseteq OnDisk'
<1>. USE DEF Copies, OnDisk
<1>1. cmd # "none"
  BY DEF Careful
<1>2. NoHook.edit = -1
  BY DEF NoHook
<1>3. CASE Commands
  BY <1>1, <1>3, CommandsBegin DEF Begin
<1>4. CASE HookStep
  BY <1>4, WriterKeeps
<1>5. CASE LinkStep \/ FileStep \/ ServiceStep \/ OtherStep \/ Fault
  <2>1. /\ kept \subseteq kept' /\ hook' = hook
        /\ writer' = writer \/ writer.temp = NoHook
    BY <1>5, RestingEdit
  <2>. QED BY <1>2, <2>1
<1>6. CASE Finish
  BY <1>6 DEF Finish
<1>7. CASE Crash
  <2>1. hook' = hook /\ kept' = kept \cup ({writer.temp.edit} \ {-1, 0})
    BY <1>7 DEF Crash, Keeping
  <2>. QED BY <2>1
<1>8. CASE ScheduledBootout
  BY <1>1, <1>8 DEF ScheduledBootout
<1>9. CASE Edit
  BY <1>9 DEF Edit, Base, Typed
<1>10. CASE Relink
  BY <1>10 DEF Relink, command
<1>. QED BY <1>3, <1>4, <1>5, <1>6, <1>7, <1>8, <1>9, <1>10, NextSplits, StepKinds

-----------------------------------------------------------------------------
(* The inductive invariant *)

Parts ==
    /\ FilesInv /\ CurrentInv /\ ReleasesInv /\ InstalledInv
    /\ HooksInv /\ ServiceInv /\ ActionInv /\ EditInv

IInv == Base /\ Parts

\* A command without a step left is past all of them.
LEMMA NothingLeft ==
  ASSUME todo = <<>>
  PROVE  \A x : Past(x)
<1>1. Len(todo) = 0
  OBVIOUS
<1>. QED BY <1>1 DEF Past, Left, Items

\* A command begins with all its steps before it, and with what it found.
LEMMA BeginParts ==
  ASSUME Base, Parts, NEW c \in Names, NEW v \in Versions \cup {None}, NEW choice \in BOOLEAN,
         Begin(c, v, choice, Steps(c))
  PROVE  Parts'
<1>1. /\ cmd = "none" /\ cmd' = c /\ target' = v /\ todo' = Steps(c)
      /\ cleaning' = FALSE /\ mine' = Fresh
      /\ before' = Snapshot
      /\ UNCHANGED <<current, releases, files, hook, service, writer, scheduled, relinked,
                     conflicted, asked>>
      /\ torn' = torn \cap {"dangling"}
  BY DEF Begin, disk
<1>2. Left' = Items(Steps(c))
  BY <1>1 DEF Left
<1>3. /\ before'.current = current' /\ before'.releases = releases' /\ before'.files = files'
      /\ before'.hook = hook' /\ before'.service = service'
  BY <1>1 DEF Snapshot
<1>4. /\ mine'.link = NoLink /\ ~mine'.noted /\ ~mine'.release /\ ~mine'.pending /\ ~mine'.stopped
      /\ ~mine'.dropped /\ mine'.spared = "none"
  BY <1>1 DEF Fresh
<1>5. writer'.at = "idle"
  BY <1>1, WriterWaits DEF NoWriter
<1>6. /\ c \in Managing => /\ ~Past("config")' /\ ~Past("launcher")' /\ ~Past("agent")'
                           /\ ~Past("state")' /\ ~Past("hooks")' /\ ~Past("service")'
      /\ c \in Switching => ~Past("activate")'
      /\ c \in Publishing => ~Past("publish")'
      /\ c = "install" => ~Past("pending")'
      /\ c \notin {"hooks", "uninstall"} => ~Past("done")'
      /\ c = "uninstall" => /\ ~Past("bootout")' /\ ~Past("unhook")' /\ ~Past("unlink")'
                            /\ ~Past("drop")' /\ ~Past("quarantine")'
  <2>. USE <1>2, StepItems DEF Past, Managing, Switching, Publishing
  <2>1. CASE c = "update"
    BY <2>1
  <2>2. CASE c = "rollback"
    BY <2>2
  <2>3. CASE c = "repair"
    BY <2>3
  <2>4. CASE c = "install"
    BY <2>4
  <2>5. CASE c = "hooks"
    BY <2>5
  <2>6. CASE c = "start"
    BY <2>6
  <2>7. CASE c = "first"
    BY <2>7
  <2>8. CASE c = "uninstall"
    BY <2>8
  <2>. QED BY <2>1, <2>2, <2>3, <2>4, <2>5, <2>6, <2>7, <2>8 DEF Names
<1>7. FilesInv'
  BY <1>1, <1>3, <1>4, <1>6 DEF FilesInv, Owned
<1>8. CurrentInv'
  BY <1>1, <1>3, <1>4, <1>6 DEF CurrentInv
<1>9. ReleasesInv'
  BY <1>1, <1>3, <1>4, <1>6 DEF ReleasesInv
<1>10. InstalledInv'
  BY <1>1, <1>3 DEF Parts, InstalledInv, Refs
<1>11. HooksInv'
  <2>1. AsNoted'
    BY <1>3, <1>4 DEF AsNoted
  <2>2. Hooked'
    BY <1>1, <1>5, <1>6 DEF Hooked
  <2>. QED BY <1>1, <1>4, <1>5, <2>1, <2>2 DEF HooksInv
<1>12. ServiceInv'
  <2>1. Found' /\ Stopped'
    BY <1>1, <1>3, <1>4, <1>6 DEF Found, Stopped
  <2>. QED BY <1>1, <1>4, <1>6, <2>1 DEF ServiceInv, Managing
<1>13. ActionInv'
  <2>1. (Wanting(files)' <=> Wanting(files)) /\ (Wanting(before.files)' <=> Wanting(files))
    BY <1>1, <1>3 DEF Wanting
  <2>. QED BY <1>1, <1>6, <2>1 DEF Parts, ActionInv
<1>14. EditInv'
  BY <1>4, <1>5 DEF EditInv
<1>. QED BY <1>7, <1>8, <1>9, <1>10, <1>11, <1>12, <1>13, <1>14 DEF Parts

\* A command that ends, or dies, leaves what it did behind.
LEMMA EndParts == ASSUME Base, Parts, Finish \/ Crash PROVE Parts'
<1>1. cmd' = "none" /\ UNCHANGED <<current, releases, files, relinked, conflicted>>
  BY DEF Finish, Crash
<1>7. torn' = torn
  BY DEF Finish, Crash
<1>2. /\ FilesInv' /\ CurrentInv' /\ ReleasesInv' /\ HooksInv' /\ ServiceInv'
  BY <1>1 DEF FilesInv, CurrentInv, ReleasesInv, HooksInv, ServiceInv
<1>3. InstalledInv'
  BY <1>1, <1>7 DEF Parts, InstalledInv, Refs
<1>4. EditInv'
  BY <1>1 DEF EditInv, Careful
<1>5. Wanting(files)' => asked'
  <2>1. CASE scheduled' = scheduled /\ asked' = asked
    BY <1>1, <2>1 DEF Parts, ActionInv, Wanting
  <2>2. CASE asked' = TRUE
    BY <2>2
  <2>3. CASE Finish /\ outcome' = "done" /\ cmd # "hooks" /\ ~(cmd = "first" /\ ~login)
    <3>1. scheduled' = scheduled /\ ~cleaning /\ ~errors /\ cmd # "none" /\ todo = <<>>
      BY <2>3 DEF Finish
    <3>2. Past("done") /\ Past("unlink")
      BY <3>1, NothingLeft
    <3>3. CASE cmd = "uninstall"
      <4>1. files = NoFiles
        BY <3>1, <3>2, <3>3 DEF Parts, FilesInv
      <4>. QED BY <1>1, <3>1, <4>1 DEF Wanting, NoFiles
    <3>4. CASE cmd # "uninstall"
      <4>1. files.action.gen > scheduled
        BY <2>3, <3>1, <3>2, <3>4 DEF Parts, ActionInv
      <4>2. files.action.gen # scheduled
        BY <4>1 DEF Base, Typed, Files
      <4>. QED BY <1>1, <3>1, <4>2 DEF Wanting
    <3>. QED BY <3>3, <3>4
  <2>4. CASE Finish /\ outcome' = "done" /\ cmd = "first" /\ ~login
    BY <2>2, <2>4 DEF Finish
  <2>5. CASE Finish /\ (outcome' # "done" \/ cmd = "hooks")
    BY <2>1, <2>5 DEF Finish
  <2>6. CASE Crash
    BY <2>1, <2>6 DEF Crash
  <2>. QED BY <2>3, <2>4, <2>5, <2>6
<1>6. ActionInv'
  BY <1>1, <1>5 DEF ActionInv
<1>. QED BY <1>2, <1>3, <1>4, <1>6 DEF Parts

\* The scheduled stop of the service comes between the commands.
LEMMA BootoutParts == ASSUME Base, Parts, ScheduledBootout PROVE Parts'
<1>1. /\ cmd = "none" /\ cmd' = "none" /\ scheduled' = 0
      /\ UNCHANGED <<current, releases, relinked, conflicted, torn>>
  BY DEF ScheduledBootout, command
<1>2. /\ FilesInv' /\ CurrentInv' /\ ReleasesInv' /\ HooksInv' /\ ServiceInv'
  BY <1>1 DEF FilesInv, CurrentInv, ReleasesInv, HooksInv, ServiceInv
<1>3. EditInv'
  BY <1>1 DEF EditInv, Careful
<1>4. ActionInv'
  BY <1>1 DEF ActionInv, Wanting
<1>5. files'.state = files.state
  <2>1. files' \in {files, [files EXCEPT !.action = NoFiles.action]}
    BY DEF ScheduledBootout
  <2>. QED BY <2>1 DEF Base, Typed, Files
<1>6. InstalledInv'
  BY <1>1, <1>5 DEF Parts, InstalledInv, Refs
<1>. QED BY <1>2, <1>3, <1>4, <1>6 DEF Parts

\* What another program does to the hooks or to the link does not mislead the command.
LEMMA OthersParts ==
  ASSUME Base, Parts, Apart,
         UNCHANGED <<releases, files, kept, service, scheduled, asked>>,
         \/ UNCHANGED <<current, hook, relinked, disturbed>>
         \/ UNCHANGED <<current, relinked>> /\ disturbed' = TRUE
         \/ UNCHANGED hook /\ relinked' = TRUE /\ disturbed' = TRUE
  PROVE  Parts'
<1>1. UNCHANGED <<cmd, todo, cleaning, errors, target, login, before, mine, writer, conflicted, torn>>
  BY DEF Apart, command
<1>2. Left' = Left
  BY <1>1 DEF Left
<1>3. ~Meddled' => ~Meddled /\ current' = current
  BY DEF Meddled, Base, Typed
<1>4. FilesInv'
  BY <1>1, <1>2 DEF Parts, FilesInv, Owned, PutBack, Past
<1>5. CurrentInv'
  BY <1>1, <1>2, <1>3 DEF Parts, CurrentInv, Unknown, Past
<1>6. ReleasesInv'
  BY <1>1, <1>2 DEF Parts, ReleasesInv, Past
<1>7. InstalledInv'
  BY <1>1 DEF Parts, InstalledInv, Refs
<1>8. HooksInv'
  <2>1. CASE hook' = hook /\ disturbed' = disturbed
    <3>1. (AsNoted' <=> AsNoted) /\ (Hooked' <=> Hooked)
      BY <1>1, <1>2, <2>1 DEF AsNoted, Untold, Hooked, Past, Merged, Wanted
    <3>. QED BY <1>1, <1>2, <2>1, <3>1 DEF Parts, HooksInv, Past
  <2>2. CASE disturbed' = TRUE
    BY <1>1, <1>2, <2>2 DEF Parts, HooksInv, Past
  <2>. QED BY <2>1, <2>2
<1>9. ServiceInv'
  <2>1. Found' = Found /\ Stopped' = Stopped /\ Starting' = Starting
    BY <1>1, <1>2 DEF Found, Stopped, Starting, Past
  <2>. QED BY <1>1, <1>2, <1>3, <2>1 DEF Parts, ServiceInv, Past
<1>10. ActionInv'
  BY <1>1, <1>2 DEF Parts, ActionInv, Wanting, Past
<1>11. EditInv'
  BY <1>1 DEF Parts, EditInv
<1>. QED BY <1>4, <1>5, <1>6, <1>7, <1>8, <1>9, <1>10, <1>11 DEF Parts

\* The clone begins with no command under way.
LEMMA InitParts == Init => Parts
<1>. SUFFICES ASSUME Init PROVE Parts
  OBVIOUS
<1>1. cmd = "none" /\ scheduled = 0
  BY DEF Init
<1>2. /\ FilesInv /\ CurrentInv /\ ReleasesInv /\ HooksInv /\ ServiceInv
  BY <1>1 DEF FilesInv, CurrentInv, ReleasesInv, HooksInv, ServiceInv
<1>3. EditInv
  BY <1>1 DEF EditInv, Careful
<1>4. ActionInv
  BY <1>1 DEF ActionInv, Wanting
<1>5. Refs(current, files) \subseteq releases \cup {None}
  BY DEF Init, Refs, NoLink, NoFiles
<1>6. InstalledInv
  BY <1>1, <1>5 DEF InstalledInv
<1>. QED BY <1>2, <1>3, <1>4, <1>6 DEF Parts

\* Whatever happens keeps every part of the invariant.
LEMMA NextParts == ASSUME Base, Parts, [Next]_vars PROVE Parts'
<1>1. CASE Commands
  BY <1>1, CommandsBegin, BeginParts
<1>2. CASE Step
  BY <1>2, StepFiles, StepCurrent, StepReleases, StepInstalled, StepHooks, StepService, StepAction,
     StepEdit DEF Parts
<1>3. CASE Finish \/ Crash
  BY <1>3, EndParts
<1>4. CASE ScheduledBootout
  BY <1>4, BootoutParts
<1>5. CASE Edit
  <2>1. /\ Apart /\ UNCHANGED <<releases, files, kept, service, scheduled, asked>>
        /\ UNCHANGED <<current, relinked>> /\ disturbed' = TRUE
    BY <1>5 DEF Edit, Apart
  <2>. QED BY <2>1, OthersParts
<1>6. CASE Relink
  <2>1. /\ Apart /\ UNCHANGED <<releases, files, kept, service, scheduled, asked>>
        /\ UNCHANGED hook /\ relinked' = TRUE /\ disturbed' = TRUE
    BY <1>6 DEF Relink, Apart
  <2>. QED BY <2>1, OthersParts
<1>7. CASE UNCHANGED vars
  <2>1. /\ Apart /\ UNCHANGED <<releases, files, kept, service, scheduled, asked>>
        /\ UNCHANGED <<current, hook, relinked, disturbed>>
    BY <1>7 DEF vars, history, disk, Apart
  <2>. QED BY <2>1, OthersParts
<1>. QED BY <1>1, <1>2, <1>3, <1>4, <1>5, <1>6, <1>7, NextSplits

\* The invariant the theorems below follow from.
LEMMA Invariant == Spec => []IInv
<1>1. Init => Parts
  BY InitParts
<1>2. Base /\ Parts /\ [Next]_vars => Parts'
  BY NextParts
<1>. QED BY <1>1, <1>2, BaseInvariant, PTL DEF Spec, IInv

-----------------------------------------------------------------------------
(* The properties *)

\* CurrentInstalled: at every instant, also after the command has died in any of its steps
\* or a step has failed after its effect, the link "current" and the state file lead to
\* installed releases, unless a cleanup has reported its failure, someone has pointed
\* "current" elsewhere, or an update has failed between the switch of the link and the note
\* of it (vibe_memory_install.update and its cleanup, _remove_new_managed_release).
THEOREM LinksInstalled == Spec => []CurrentInstalled
<1>1. IInv => CurrentInstalled
  BY DEF IInv, Parts, InstalledInv, Refs, CurrentInstalled
<1>. QED BY <1>1, Invariant, PTL

\* The steps of the clone that are not the end of a command decide nothing about how it ended.
LEMMA OutcomesStay ==
  ASSUME Base, [Next]_vars, ~Finish, cmd' = "none", outcome' \in {"done", "failed"}, ~disturbed'
  PROVE  UNCHANGED vars
<1>1. CASE Commands
  BY <1>1, CommandsBegin DEF Begin, Names
<1>2. CASE Step
  <2>1. Running /\ Moves
    BY <1>2, StepKinds, HookKind, LinkKind, FileKind, ServiceKind, OtherKind, FaultKind DEF Passing
  <2>. QED BY <2>1 DEF Running, Moves, Steady, Names
<1>3. CASE Crash
  BY <1>3 DEF Crash
<1>4. CASE ScheduledBootout \/ Edit \/ Relink
  BY <1>4 DEF ScheduledBootout, Edit, Relink
<1>. QED BY <1>1, <1>2, <1>3, <1>4, NextSplits

\* A command that finishes its steps has written, switched, hooked and started what
\* SuccessAgrees says.
LEMMA SuccessEnds == ASSUME IInv, Finish PROVE SuccessAgrees'
<1>. SUFFICES ASSUME outcome' = "done", ~disturbed' PROVE SuccessAgrees'
  BY DEF SuccessAgrees
<1>1. /\ cmd # "none" /\ ~cleaning /\ last' = cmd /\ ~Meddled /\ ~disturbed
      /\ UNCHANGED <<current, releases, files, hook, service, target>>
  BY DEF Finish, Meddled
<1>2. \A x : Past(x)
  BY NothingLeft DEF Finish
<1>6. ~Unknown
  BY <1>1 DEF IInv, Parts, CurrentInv, Unknown
<1>3. CASE cmd \in Managing
  <2>1. /\ files.config.version = target /\ files.launcher /\ files.agent # "absent"
        /\ files.state.current = target
    BY <1>1, <1>2, <1>3 DEF IInv, Parts, FilesInv
  <2>2. current.to = target
    <3>1. CASE cmd \in Switching
      BY <1>1, <1>2, <3>1, <1>6 DEF IInv, Parts, CurrentInv
    <3>2. CASE cmd \notin Switching
      <4>1. cmd = "repair"
        BY <1>3, <3>2 DEF Managing, Switching
      <4>2. current = before.current
        BY <1>1, <1>6, <3>2, <4>1 DEF IInv, Parts, CurrentInv
      <4>. QED BY <4>1, <4>2 DEF IInv, Base, Shared
    <3>. QED BY <3>1, <3>2
  <2>3. service = target
    BY <1>1, <1>2, <1>3 DEF IInv, Parts, ServiceInv
  <2>4. hook.ours
    BY <1>1, <1>2, <1>3 DEF IInv, Parts, HooksInv, Hooked
  <2>. QED BY <1>1, <1>3, <2>1, <2>2, <2>3, <2>4 DEF SuccessAgrees, Managing
<1>4. CASE cmd = "uninstall"
  <2>1. files = NoFiles
    BY <1>1, <1>2, <1>4 DEF IInv, Parts, FilesInv
  <2>2. current = NoLink
    BY <1>1, <1>2, <1>4, <1>6 DEF IInv, Parts, CurrentInv
  <2>3. releases = {}
    BY <1>1, <1>2, <1>4 DEF IInv, Parts, ReleasesInv
  <2>4. ~hook.ours
    BY <1>1, <1>2, <1>4 DEF IInv, Parts, HooksInv, Hooked
  <2>5. service = None
    BY <1>1, <1>2, <1>4 DEF IInv, Parts, ServiceInv
  <2>. QED BY <1>1, <1>4, <2>1, <2>2, <2>3, <2>4, <2>5 DEF SuccessAgrees
<1>5. CASE cmd \notin Managing \cup {"uninstall"}
  BY <1>1, <1>5 DEF SuccessAgrees, Managing
<1>. QED BY <1>3, <1>4, <1>5

\* A cleanup that reported nothing has put back what FailureRestores says.
LEMMA FailureEnds == ASSUME IInv, Finish PROVE FailureRestores'
<1>. SUFFICES ASSUME outcome' = "failed", ~errors', ~disturbed' PROVE FailureRestores'
  BY DEF FailureRestores
<1>1. /\ cmd # "none" /\ cleaning /\ ~errors /\ last' = cmd /\ ~Meddled /\ ~disturbed
      /\ UNCHANGED <<current, releases, files, hook, service, before, mine, torn>>
  BY DEF Finish, Meddled
<1>2. \A x : Past(x)
  BY NothingLeft DEF Finish
<1>3. current.to = before.current.to \/ "link" \in torn
  BY <1>1, <1>2 DEF IInv, Parts, CurrentInv, Unknown
<1>4. releases = before.releases \/ "release" \in torn
  BY <1>1, <1>2 DEF IInv, Parts, ReleasesInv
<1>5. \A f \in DOMAIN files \ torn : files[f] = before.files[f]
  <2>1. PutBack /\ (cmd \in Withdrawing /\ "action" \notin torn => files.action = before.files.action)
    BY <1>1, <1>2 DEF IInv, Parts, FilesInv
  <2>2. files \in Files /\ before.files \in Files
    BY DEF IInv, Base, Typed, Snapshots
  <2>3. "action" \notin torn => files.action = before.files.action
    BY <2>1 DEF PutBack
  <2>4. ASSUME NEW f \in DOMAIN files, f # "action" PROVE files[f] = before.files[f]
    <3>1. DOMAIN files = {"config", "launcher", "agent", "state", "action"}
      BY <2>2 DEF Files
    <3>2. /\ files.config = before.files.config /\ files.launcher = before.files.launcher
          /\ files.agent = before.files.agent /\ files.state = before.files.state
      BY <2>1, <2>2 DEF PutBack, Files
    <3>. QED BY <2>4, <3>1, <3>2
  <2>. QED BY <2>3, <2>4
<1>6. hook = before.hook
  BY <1>1, <1>2 DEF IInv, Parts, HooksInv
<1>7. Starting /\ "service" \notin torn => service = before.service
  BY <1>1, <1>2 DEF IInv, Parts, ServiceInv
<1>. QED BY <1>1, <1>3, <1>4, <1>5, <1>6, <1>7 DEF FailureRestores, Starting

\* SuccessAgrees: after a transition that succeeded undisturbed the link, the configuration,
\* the state, the hooks and the service agree on one version, and after an uninstall nothing
\* is left (update, rollback, repair, install, uninstall).
THEOREM SuccessIsWhole == Spec => []SuccessAgrees
<1>1. Init => SuccessAgrees
  BY DEF Init, SuccessAgrees
<1>2. IInv /\ SuccessAgrees /\ [Next]_vars => SuccessAgrees'
  <2>. SUFFICES ASSUME IInv, SuccessAgrees, [Next]_vars PROVE SuccessAgrees'
    OBVIOUS
  <2>1. CASE Finish
    BY <2>1, SuccessEnds
  <2>2. CASE ~Finish /\ cmd' = "none" /\ outcome' = "done" /\ ~disturbed'
    <3>1. UNCHANGED vars
      BY <2>2, OutcomesStay DEF IInv
    <3>. QED BY <3>1 DEF vars, disk, command, history, SuccessAgrees
  <2>3. CASE ~(cmd' = "none" /\ outcome' = "done" /\ ~disturbed')
    BY <2>3 DEF SuccessAgrees
  <2>. QED BY <2>1, <2>2, <2>3
<1>. QED BY <1>1, <1>2, Invariant, PTL DEF Spec

\* FailureRestores: nothing of a transition that failed remains when nobody interfered and
\* its cleanup reported no failure, and a service that ran the current version runs it again;
\* what the failed step changed without noting it is the exception, and no other part is
\* (the cleanups of vibe_memory_install.py and vibe_memory_cli.py).
THEOREM FailureIsUndone == Spec => []FailureRestores
<1>1. Init => FailureRestores
  BY DEF Init, FailureRestores
<1>2. IInv /\ FailureRestores /\ [Next]_vars => FailureRestores'
  <2>. SUFFICES ASSUME IInv, FailureRestores, [Next]_vars PROVE FailureRestores'
    OBVIOUS
  <2>1. CASE Finish
    BY <2>1, FailureEnds
  <2>2. CASE ~Finish /\ cmd' = "none" /\ outcome' = "failed" /\ ~disturbed'
    <3>1. UNCHANGED vars
      BY <2>2, OutcomesStay DEF IInv
    <3>. QED BY <3>1 DEF vars, disk, command, history, FailureRestores
  <2>3. CASE ~(cmd' = "none" /\ outcome' = "failed" /\ ~disturbed')
    BY <2>3 DEF FailureRestores
  <2>. QED BY <2>1, <2>2, <2>3
<1>. QED BY <1>1, <1>2, Invariant, PTL DEF Spec

\* EditsKept: no step of update, rollback, repair or uninstall, nor their death, removes the
\* only copy of another program's edit of the hook configuration (write_with_backup,
\* _restore_regular_file).
THEOREM CopiesKept == Spec => EditsKept
<1>1. IInv /\ [Next]_vars =>
        [edits' = edits /\ cmd \in {"update", "rollback", "repair", "uninstall"} =>
             OnDisk \ {-1, 0} \subseteq OnDisk']_vars
  BY NextKeeps DEF IInv, Parts, Careful, Copies
<1>. QED BY <1>1, Invariant, PTL DEF Spec, EditsKept

\* BootoutAsked: the stop that a first run scheduled never hits a service that a later
\* command has settled (complete_scheduled_bootout).
THEOREM StopIsAsked == Spec => BootoutAsked
<1>1. IInv /\ [Next]_vars => [cmd = "none" /\ cmd' = "none" /\ service' # service => asked]_vars
  <2>. SUFFICES ASSUME IInv, Next, cmd = "none", cmd' = "none", service' # service PROVE asked
    OBVIOUS
  <2>1. CASE Commands
    BY <2>1, CommandsBegin DEF IInv, Begin, Names
  <2>2. CASE Step
    <3>1. Running
      BY <2>2, StepKinds, HookKind, LinkKind, FileKind, ServiceKind, OtherKind, FaultKind
         DEF IInv, Passing
    <3>. QED BY <3>1 DEF Running, Names
  <2>3. CASE Finish \/ Crash
    BY <2>3 DEF Finish, Crash
  <2>4. CASE ScheduledBootout
    BY <2>4 DEF ScheduledBootout, IInv, Parts, ActionInv, Wanting
  <2>5. CASE Edit \/ Relink
    BY <2>5 DEF Edit, Relink
  <2>. QED BY <2>1, <2>2, <2>3, <2>4, <2>5, NextSplits
<1>. QED BY <1>1, Invariant, PTL DEF Spec, BootoutAsked
=============================================================================
