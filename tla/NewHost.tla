------------------------------- MODULE NewHost -------------------------------
(* What add_node and replace_node check on a host before they install       *)
(* anything there (new_node_checks.yml, cassandra_new_node.py).  Each check  *)
(* takes h, what is known of the host, and tells whether it has a problem;   *)
(* what is only a warning or a note is left out.                             *)
EXTENDS ResetPaths

\* The mount point a path is on: the longest one above it, if any.
MountOf(path, mounts) ==
    LET above == {m \in mounts : Under(path, m)}
    IN  {m \in above : \A other \in above : Len(other) <= Len(m)}

\* Mutant: only a path on no file system.
MountMissingAll(h, path) ==
    LET real == RealPath(path, h.links)
    IN  MountOf(real, h.mounted) = {} /\ MountOf(real, h.atBoot \ {<<>>}) # {}

\* Would land on the file system below: the mount /etc/fstab or an enabled unit
\* has there (the root aside) is not mounted.
MountMissing(h, path) ==
    LET real == RealPath(path, h.links)
        on   == MountOf(real, h.mounted)
        want == MountOf(real, h.atBoot \ {<<>>})
    IN  /\ h.mounted # {}
        /\ \E w \in want : \A m \in on : Len(w) > Len(m)

TooSmall(h, kind, path) ==
    /\ kind = "data" /\ h.minFree > 0
    /\ \E m \in MountOf(RealPath(path, h.links), h.mounted) : h.free[m] < h.minFree

\* What the directory holds besides the other Cassandra directories.
HeldIn(h, path) ==
    LET paths == {d[2] : d \in h.inventory}
        real  == RealPath(path, h.links)
    IN  {e \in {path \o SubSeq(x, Len(real) + 1, Len(x)) : x \in EntriesOf({[real |-> real]}, h.files)} :
            ~ \E other \in paths : other # path /\ Under(other, e)}

DirsProblem(h, reset) ==
    \E d \in h.inventory :
        \/ MountMissing(h, d[2]) \/ TooSmall(h, d[1], d[2])
        \/ ~reset /\ HeldIn(h, d[2]) # {}

\* A running Cassandra, unless a reset that may stop it comes first; the ports
\* of the cluster's nodes not reached (those clients alone need aside); its own
\* ports taken, by another program or by that Cassandra.
NetworkProblem(h, reset, resetStops) ==
    LET first == reset /\ (resetStops \/ ~h.running)
    IN  \/ h.running /\ ~first
        \/ \E r \in h.reach : ~r.answers /\ ~r.optional
        \/ h.portsTaken /\ ~(h.running /\ first)

VersionOk(versions, wanted) == wanted = "any" \/ wanted \in versions

\* n: [name, mode, version, fallback], mode "installed" (nothing is downloaded),
\* "either" or "warn".
PackageProblem(h, n) ==
    LET have == IF h.packagesRead THEN h.installed[n.name] ELSE {}
        repo == h.available[n.name]
    IN  /\ h.packagesRead \/ n.mode = "either"
        /\ have = {} \/ ~VersionOk(have, n.version)
        /\ \/ have # {}
           \/ n.mode = "installed"
           \/ /\ n.mode = "either" /\ ~n.fallback /\ h.repoRead
              /\ repo = {} \/ ~VersionOk(repo, n.version)

\* No answer only warns (a proxy of the package manager's own); a refused method
\* (405) is an answer.
UrlProblem(u) ==
    /\ u.status # "none"
    /\ \/ u.status \in {"denied", "error"} /\ ~u.soft
       \/ u.status \in {"ok", "405"} /\ ~u.matches

\* The switches import_cluster wrote for the node of that name, on a host with
\* no Cassandra to keep.
KeptSetupProblem(h) ==
    h.switchesOff # {} /\ ~h.hasCassandra /\ h.imported /\ ~h.allowKept

NewNodeProblem(h, reset, resetStops) ==
    \/ DirsProblem(h, reset)
    \/ NetworkProblem(h, reset, resetStops)
    \/ \E n \in h.needs : PackageProblem(h, n)
    \/ \E u \in h.urls : UrlProblem(u)
    \/ KeptSetupProblem(h)
=============================================================================
