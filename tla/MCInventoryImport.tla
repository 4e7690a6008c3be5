-------------------------- MODULE MCInventoryImport --------------------------
(* InventoryImport for TLC: three nodes in two DCs, one setting, the login,
   another cluster in the directory. *)
EXTENDS InventoryImport

Is(v) == <<"is", v>>

MCNodes == {[name |-> "n1", dc |-> "dc1", rack |-> "r1"],
            [name |-> "n2", dc |-> "dc1", rack |-> "r1"],
            [name |-> "n3", dc |-> "dc2", rack |-> "r1"]}

MCDefaults == "k" :> Is("v0") @@ "f" :> Is("yes") @@ "u" :> Is("yes") @@ "dc" :> Is("dc1") @@ "rack" :> Is("r1")
MCAlways == {"name"}
MCNotRead == {"p", "u", "login"}
MCSecret == {"login"}
MCLogin == "login" :> Is("typed")

NodeHas(v) == "name" :> Is("c") @@ (IF v = Missing THEN <<>> ELSE "k" :> v)
LivesOf(v1, v2, v3) == "n1" :> NodeHas(v1) @@ "n2" :> NodeHas(v2) @@ "n3" :> NodeHas(v3)
MCLives == {LivesOf(Is("v1"), Is("v1"), Is("v1")),
            LivesOf(Missing, Missing, Missing),
            LivesOf(Is("v1"), Missing, Is("v1")),
            LivesOf(At("n1"), At("n2"), At("n3"))}

MCLeftAsIs == [r \in BOOLEAN |-> IF r THEN "f" :> Is("no") ELSE "f" :> Is("no") @@ "u" :> Is("no")]

File(where, file, mark, v) == [where |-> where, file |-> file, mark |-> mark, vars |-> v]

MCYourFiles == {
    File(All, "main", Yours, "k" :> Is("v1") @@ "f" :> Is("yes")),
    File(Host("n1"), "single", Yours, "k" :> Is("v1")),
    File(Host("n1"), "before", Yours, "k" :> Is("v2")),
    File(Host("n1"), "after", Yours, "k" :> Is("v2")),
    File(<<"group", "c", "dc1">>, "main", Yours, "k" :> Is("v2")),
    File(<<"group", "c">>, "before", Yours, "k" :> <<"template", "t">> @@ "p" :> Is("v1"))}

B(hs) == [name |-> "b", mark |-> "b", valid |-> TRUE, groups |-> {<<"group", "b">>}, hosts |-> {Host(h) : h \in hs}]
BFiles == {File(<<"group", "b">>, "main", "b", "k" :> Is("v2")), File(Host("m1"), "main", "b", "k" :> Is("v1"))}
AHosts(mark) == [name |-> "c", mark |-> mark, valid |-> TRUE,
                 groups |-> {<<"group", "c">>}, hosts |-> {Host("n1"), Host("n2"), Host("n3")}]
AFiles(mark) == {File(<<"group", "c">>, "main", mark, "name" :> Is("c") @@ "k" :> Is("v2")),
                 File(<<"group", "c">>, "secrets", mark, MCLogin),
                 File(Host("n3"), "main", mark, "k" :> Is("v1"))}

(* Nothing; a cluster that shares a host, or the file of one; an earlier import's, next to
   another cluster; an earlier release's, its first lines naming no cluster,
   or with no first line. *)
MCEarlier == {
    [files |-> {}, hosts |-> {}],
    [files |-> BFiles, hosts |-> {B({"m1", "n1"})}],
    [files |-> {File(Host("n1"), "main", "b", "k" :> Is("v2"))}, hosts |-> {B({"m1"})}],
    [files |-> AFiles("c") \cup BFiles, hosts |-> {AHosts("c"), B({"m1"})}],
    [files |-> AFiles(Unnamed) \cup BFiles, hosts |-> {B({"m1"})}],
    [files |-> AFiles(Old), hosts |-> {AHosts(Yours)}]}

(* For the DC and the rack: a host file of the user's with its own DC.      *)
MCOwnDC == {File(Host("n3"), "before", Yours, "dc" :> Is("dc2"))}
MCSame == {LivesOf(Is("v1"), Is("v1"), Is("v1"))}
MCNothing == {[files |-> {}, hosts |-> {}]}
=============================================================================
