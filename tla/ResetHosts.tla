----------------------------- MODULE ResetHosts ------------------------------
(* The hosts NodeReset is checked on: they differ in one thing at a time     *)
(* from a new node, a package's own instance, a failed bootstrap, a former   *)
(* member or a member of a ring.                                             *)
EXTENDS Sequences, TLC

Lib  == <<"var", "lib", "cassandra">>
Data == Lib \o <<"data">>
Logs == Lib \o <<"commitlog">>
Conf == <<"etc", "cassandra">>

NoDirs == [data_file_directories |-> {Data}, local_system_data_file_directory |-> {},
           commitlog_directory |-> {}, cdc_raw_directory |-> {}]
YamlOf(cluster) == {[cluster |-> cluster, dirs |-> NoDirs, cdc |-> FALSE]}

Others_ == {Conf \o <<"yaml">>, <<"var", "lib", "mysql", "t">>, <<"srv", "app", "f">>, Data \o <<"lost+found">>}
FilesIn(data, names) == {data \o <<n>> : n \in names}
System == {Data \o <<"system", "local">>}
Met    == System \cup {Data \o <<"system", "peers">>, Logs \o <<"log">>}
Shop   == {Data \o <<"shop", "t">>}

Blank ==
    [inventory |-> {<<"data", Data>>, <<"commitlog", Logs>>}, yaml |-> {}, unread |-> FALSE,
     mounted |-> {<<>>}, atBoot |-> {<<>>}, protected |-> {Conf}, links |-> <<>>, relinks |-> {},
     others |-> Others_, files |-> Others_, jvm |-> "down", boot |-> FALSE, inRing |-> "none",
     mark |-> FALSE, under |-> "now", told |-> FALSE, running |-> FALSE,
     minFree |-> 0, free |-> <<>>, portsTaken |-> FALSE, reach |-> {},
     packagesRead |-> TRUE, repoRead |-> TRUE, installed |-> <<>>, available |-> <<>>, needs |-> {}, urls |-> {},
     switchesOff |-> {}, hasCassandra |-> FALSE, imported |-> FALSE, allowKept |-> FALSE]

With(p, cluster, held, ring) ==
    [p EXCEPT !.yaml = YamlOf(cluster), !.files = @ \cup held, !.inRing = ring]

Stock  == [With(Blank, "stock", System, "none") EXCEPT !.boot = TRUE]
Former == With(Blank, "main", Met \cup Shop, "none")
Failed == [Former EXCEPT !.mark = TRUE]
Member == [Former EXCEPT !.inRing = "main", !.boot = TRUE]
Running(p) == [p EXCEPT !.jvm = "unit"]

States == [
    blank |-> Blank, stock |-> Stock, stockUp |-> Running(Stock), byHand |-> [Stock EXCEPT !.jvm = "hand"],
    unread |-> [Stock EXCEPT !.unread = TRUE], stockUsed |-> With(Stock, "stock", Shop, "none"),
    others |-> With(Blank, "stock", Met, "other"), othersNamed |-> With(Blank, "other", Met, "other"),
    othersUp |-> Running(With(Blank, "stock", Met, "other")),
    former |-> Former, failed |-> Failed, failedOld |-> [Failed EXCEPT !.files = @ \cup {Data \o <<"old", "t">>}],
    member |-> Member, memberUp |-> Running(Member), moved |-> [Member EXCEPT !.under = "old"],
    movedTold |-> [Member EXCEPT !.under = "old", !.told = TRUE], movedUp |-> Running([Member EXCEPT !.under = "old"]),
    joining |-> [Running(Failed) EXCEPT !.inRing = "joining"]]

\* Where the directories are: a mount, one that is missing, a link that leads
\* elsewhere since, a directory the configuration alone names, others refused.
In(p, data) == [p EXCEPT !.inventory = {<<"data", data>>, <<"commitlog", Logs>>},
                         !.yaml = {[y EXCEPT !.dirs.data_file_directories = {data}] : y \in @},
                         !.files = Others_ \cup {data \o <<"system", "local">>, data \o <<"lost+found", "x">>}]
Disk == <<"data">>
Srv  == <<"srv", "app">>
Link(to) == Data :> to
Places == [
    onMount |-> [In(Stock, Disk) EXCEPT !.mounted = {<<>>, Disk}, !.atBoot = {<<>>, Disk}],
    mountMissing |-> [In(Stock, Disk) EXCEPT !.atBoot = {<<>>, Disk}],
    belowMissing |-> [In(Stock, Disk \o <<"c">>) EXCEPT !.atBoot = {<<>>, Disk}],
    holdsMount |-> [In(Stock, Disk \o <<"c">>) EXCEPT !.mounted = {<<>>, Disk \o <<"c", "backup">>}, !.atBoot = {<<>>}],
    mysql |-> In(Stock, <<"var", "lib", "mysql">>), home |-> In(Stock, <<"home", "app">>),
    wholeLib |-> In(Stock, Lib), etc |-> In(Stock, <<"etc", "c">>),
    linkOther |-> [Stock EXCEPT !.links = Link(<<"var", "lib", "mysql">>)],
    relinked |-> [Stock EXCEPT !.links = Link(<<"srv", "c">>), !.relinks = {Link(Srv)},
                               !.files = Others_ \cup {<<"srv", "c", "system", "local">>},
                               !.others = @ \ {Srv \o <<"f">>}],
    linkInside |-> [Stock EXCEPT !.links = Link(Logs), !.files = Others_ \cup {Logs \o <<"log">>}],
    yamlElsewhere |->
        [Stock EXCEPT !.yaml = {[y EXCEPT !.dirs.data_file_directories = {<<"opt", "c", "data">>}, !.cdc = TRUE] : y \in @},
                      !.files = @ \cup {<<"opt", "c", "data", "shop", "t">>, Lib \o <<"cdc_raw", "log">>}],
    logsInside |-> [Stock EXCEPT !.protected = {Conf, <<"srv", "c", "log">>}, !.links = Link(<<"srv", "c">>),
                                 !.files = Others_ \cup {<<"srv", "c", "system", "local">>}]]

\* What the first checks look at besides.
Need(mode) == [name |-> "cassandra", mode |-> mode, version |-> "v2", fallback |-> FALSE]
Asks(p, mode, have, repo) ==
    [p EXCEPT !.needs = {Need(mode)}, !.installed = [cassandra |-> have], !.available = [cassandra |-> repo]]
Checked == [
    notInRepo |-> Asks(Blank, "either", {}, {"v1"}), oldPackage |-> Asks(Blank, "either", {"v1"}, {"v2"}),
    ownPackage |-> Asks(Blank, "installed", {}, {"v2"}), repoUnread |-> [Asks(Blank, "either", {}, {}) EXCEPT !.repoRead = FALSE],
    notReached |-> [Blank EXCEPT !.reach = {[answers |-> FALSE, optional |-> FALSE]}],
    portsTaken |-> [Stock EXCEPT !.portsTaken = TRUE],
    denied |-> [Blank EXCEPT !.urls = {[status |-> "denied", soft |-> FALSE, matches |-> TRUE]}],
    kept |-> [Blank EXCEPT !.switchesOff = {"os"}, !.imported = TRUE],
    small |-> [Blank EXCEPT !.minFree = 2, !.free = (<<>> :> 1)]]

Profiles == States @@ Places @@ Checked
=============================================================================
