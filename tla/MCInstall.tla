------------------------------ MODULE MCInstall ------------------------------
(***************************************************************************)
(* The instance of Install for TLC: two versions, and a view that takes    *)
(* states as one which differ only in history that no step and no property *)
(* reads any more, or in the names of the versions.                        *)
(***************************************************************************)
EXTENDS Install

\* Versions are compared with each other and with None only, so the two of the instance,
\* 1 and 2, are alike: the first one that a state names is taken for version 1.
NamedFirst ==
    LET named == <<current.to, target, before.current.to, service, files.config.version,
                   files.state.current, files.state.previous, before.service, mine.link.to,
                   before.files.config.version, before.files.state.current,
                   before.files.state.previous>>
        sets == <<releases, before.releases, quarantined>>
        some == {i \in DOMAIN named : named[i] # None}
        odd == {i \in DOMAIN sets : sets[i] \notin {{}, Versions}}
    IN IF some # {} THEN named[CHOOSE i \in some : \A j \in some : i <= j]
       ELSE IF odd # {} THEN CHOOSE v \in sets[CHOOSE i \in odd : \A j \in odd : i <= j] : TRUE
       ELSE 1

\* CurrentInstalled asks for any of the three.
Excused == conflicted \/ relinked \/ "dangling" \in torn

\* FailureRestores asks for it only of an undisturbed command.
Torn == IF disturbed THEN {} ELSE torn \ {"dangling"}

View ==
    LET first == NamedFirst
        As(v) == IF v = None \/ first = 1 THEN v ELSE 3 - v
        Link(c) == [c EXCEPT !.to = As(@)]
        Set(S) == {As(v) : v \in S}
        Managed(f) == [f EXCEPT !.config.version = As(@),
                                !.state = [current |-> As(@.current), previous |-> As(@.previous)]]
        Found == [before EXCEPT !.current = Link(@), !.releases = Set(@),
                                !.files = Managed(@), !.service = As(@)]
        Disk == <<Link(current), Set(releases), Set(quarantined), Managed(files), hook, kept,
                  As(service)>>
        \* Between two commands only the report of the last one is read, if it is at all.
        Report == CASE outcome = "failed" /\ ~errors /\ ~disturbed ->
                           <<outcome, last, mine.attempted, Torn, Found>>
                    [] outcome = "done" /\ ~disturbed -> <<outcome, last, As(target)>>
                    [] OTHER -> <<>>
        Command == <<cmd, todo, cleaning, errors, As(target), login, Found,
                     [mine EXCEPT !.link = Link(@)], writer, disturbed, Torn>>
    IN \* A stop is asked for only while one is scheduled.
       <<Disk, scheduled, counters, Excused, asked /\ scheduled # 0,
         IF cmd = "none" THEN Report ELSE Command>>
=============================================================================
