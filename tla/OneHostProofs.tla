---------------------------- MODULE OneHostProofs ----------------------------
(***************************************************************************)
(* Proofs about one host: what a reset deletes, for any targets, members,  *)
(* directories, links, rings, answers and changes meanwhile; which volumes *)
(* the tuning of its disks has LVM reload, for any stack of devices.       *)
(***************************************************************************)
EXTENDS MCOneHost, TLAPS, FiniteSetTheorems, SequenceTheorems, WellFoundedInduction

Going == pc \in {"asked", "stopped", "disabled"}

LinksOfTarget(t) == Reset!LinksOf(Reset!At(t))

(* What a target would be found to hold, did its links lead as l says.     *)
FoundBy(t, l) == Reset!FoundAt(t, Reset!DirsBy(Reset!At(t), l))

(* What the other rings keep of a member of theirs, whatever its links.    *)
StillOther(t) ==
    Reset!OfCluster(t) # {"main"} /\ \A l \in LinksOfTarget(t) : FoundBy(t, l).peers

ResetTypes ==
    /\ like \in [Targets -> DOMAIN ResetHost!Profiles]
    /\ present \in [Targets -> SUBSET Seq(Reset!Names)]
    /\ DOMAIN links = Targets /\ \A t \in Targets : links[t] \in LinksOfTarget(t)
    /\ jvm \in [Targets -> {"down", "unit", "hand"}]
    /\ boot \in [Targets -> BOOLEAN] /\ mark \in [Targets -> BOOLEAN]
    /\ inRing \in [Targets -> {"none", "joining", "main", "other"}]
    /\ kind \in ResetKinds /\ explicit \in BOOLEAN /\ ghost \in BOOLEAN
    /\ waited \in {0, 1}

(* What a host holds may go, from what the run found through the links l, *)
(* the dead node being the one it replaces.                                *)
Fit(t, l, dead) ==
    /\ inRing[t] = "none" /\ kind = "add" => FoundBy(t, l).users = {} \/ mark[t] \/ explicit
    /\ inRing[t] \in {"joining", "main"} =>
         IF kind = "cluster" THEN ~ghost ELSE kind = "replace" /\ dead = Reset!AddrOf(t)
    /\ inRing[t] = "other" => kind # "add" /\ Reset!OfCluster(t) # {"other"}

(* The plan lists what the host still holds, and it may go.                *)
Fits(t) ==
    \E l \in LinksOfTarget(t) :
        /\ ~FoundBy(t, l).refused
        /\ plan[t].real = FoundBy(t, l).dirs
        /\ plan[t].delete = FoundBy(t, l).delete
        /\ Fit(t, l, replaced)

(* Nothing starts on a host with something to delete, but what changes while *)
(* the run waits; the disable task comes before; of a cluster, a host the  *)
(* run leaves alone does not start.                                        *)
PlanInv(t) ==
    /\ plan[t].delete # {} =>
         /\ IF pc = "disabled" THEN ~boot[t] ELSE boot[t] => plan[t].disable
         /\ jvm[t] # "down" => waited = 1 \/ (pc = "asked" /\ plan[t].stop /\ jvm[t] = "unit")
         /\ jvm[t] = "down" \/ (pc = "asked" /\ plan[t].stop) => Fits(t)
    /\ pc = "asked" /\ plan[t].stop /\ jvm[t] = "down" => waited = 1
    /\ plan[t].stop => kind # "add"
    /\ kind = "cluster" /\ plan[t] = Reset!Nothing => jvm[t] = "down" /\ Reset!At(t).yaml = {}

ResetInv ==
    /\ ResetTypes
    /\ Going => \A t \in Targets : PlanInv(t)
    /\ kind = "add" => \A t \in Targets : inRing[t] = "other" => StillOther(t)

-----------------------------------------------------------------------------
(* Paths and directories.                                                  *)

(* A target is as its profile.                                             *)
LEMMA ProfileOk ==
    ASSUME ResetTypes, NEW t \in Targets
    PROVE  Reset!TargetOk(Reset!At(t)) /\ t \notin {"ghost", "none", "foreign"} /\ t \notin Members
BY ResetAssumption DEF ResetTypes, Reset!HostsAssumption, Reset!At

(* The paths a run lists are sequences of names.                           *)
LEMMA ListedPaths ==
    ASSUME NEW p, Reset!TargetOk(p), NEW mounts, NEW protected,
           NEW d \in Reset!ListedDirs(p.inventory, IF p.unread THEN {} ELSE p.yaml, mounts, protected).dirs
    PROVE  d.path \in Seq(Reset!Names)
<1> DEFINE yaml == IF p.unread THEN {} ELSE p.yaml
           all == p.inventory \cup UNION {Reset!LiveDirs(y) : y \in yaml}
<1>1. \E f \in all : d.path = f[2]
  BY DEF Reset!ListedDirs
<1>2. ASSUME NEW y \in yaml, NEW f \in Reset!LiveDirs(y) PROVE f[2] \in Seq(Reset!Names)
  <2>1. PICK key \in DOMAIN Reset!LiveKeys : f \in {Reset!LiveKeys[key]} \X Reset!DirsOf(key, y)
    BY <1>2 DEF Reset!LiveDirs
  <2>2. f[2] \in Reset!DirsOf(key, y)
    BY <2>1
  <2>3. y \in p.yaml
    BY <1>2
  <2>4. y.dirs[key] \subseteq Seq(Reset!Names)
    BY <2>1, <2>3 DEF Reset!TargetOk
  <2>5. Reset!StorageDir \in Seq(Reset!Names)
    BY DEF Reset!StorageDir, Reset!Names
  <2>6. Reset!LiveKeys[key] \in Reset!Names
    BY <2>1 DEF Reset!LiveKeys, Reset!Names
  <2>7. Append(Reset!StorageDir, Reset!LiveKeys[key]) \in Seq(Reset!Names)
    BY <2>5, <2>6
  <2> QED BY <2>2, <2>4, <2>7 DEF Reset!DirsOf
<1>3. ASSUME NEW f \in p.inventory PROVE f[2] \in Seq(Reset!Names)
  BY <1>3 DEF Reset!TargetOk
<1> QED BY <1>1, <1>2, <1>3

(* Where links lead, from a sequence of names, is one.                     *)
LEMMA RealPathType ==
    ASSUME NEW links_, \A x \in DOMAIN links_ : x \in Seq(Reset!Names) /\ links_[x] \in Seq(Reset!Names),
           NEW path \in Seq(Reset!Names)
    PROVE  Reset!RealPath(path, links_) \in Seq(Reset!Names)
<1>1. CASE ~ \E x \in DOMAIN links_ : Reset!Under(path, x)
  BY <1>1 DEF Reset!RealPath
<1>2. CASE \E x \in DOMAIN links_ : Reset!Under(path, x)
  <2> DEFINE x == CHOOSE y \in DOMAIN links_ : Reset!Under(path, y)
  <2>1. x \in DOMAIN links_
    BY <1>2
  <2>2. Reset!RealPath(path, links_) = links_[x] \o SubSeq(path, Len(x) + 1, Len(path))
    BY <1>2 DEF Reset!RealPath
  <2> HIDE DEF x
  <2>3. SubSeq(path, Len(x) + 1, Len(path)) \in Seq(Reset!Names)
    BY <2>1
  <2> QED BY <2>1, <2>2, <2>3
<1> QED BY <1>1, <1>2

(* The directories a run finds: those listed, each where its links lead.   *)
LEMMA DirsFound ==
    ASSUME NEW p, Reset!TargetOk(p), NEW l \in Reset!LinksOf(p), NEW d \in Reset!DirsBy(p, l).dirs
    PROVE  d.path \in Seq(Reset!Names) /\ d.real \in Seq(Reset!Names)
<1> DEFINE yaml == IF p.unread THEN {} ELSE p.yaml
<1>1. PICK e \in Reset!ListedDirs(p.inventory, yaml, p.mounted, p.protected).dirs :
        d = [path |-> e.path, kinds |-> e.kinds, real |-> Reset!RealPath(e.path, l)]
  BY DEF Reset!DirsBy, Reset!RealDirs
<1>2. e.path \in Seq(Reset!Names)
  BY ListedPaths
<1>3. \A x \in DOMAIN l : x \in Seq(Reset!Names) /\ l[x] \in Seq(Reset!Names)
  BY DEF Reset!TargetOk
<1>4. Reset!RealPath(e.path, l) \in Seq(Reset!Names)
  BY <1>2, <1>3, RealPathType
<1> QED BY <1>1, <1>2, <1>4

(* What is below the entries of some files is below the entries of any     *)
(* others that hold it.                                                    *)
LEMMA BelowEntries ==
    ASSUME NEW dirs, \A d \in dirs : d.real \in Seq(Reset!Names),
           NEW some \in SUBSET Seq(Reset!Names), NEW others,
           NEW f \in Reset!Below(Reset!EntriesOf(dirs, some), some), f \in others
    PROVE  Reset!EntriesOf(dirs, others) # {}
<1>1. PICK e \in Reset!EntriesOf(dirs, some) : Reset!Under(f, e)
  BY DEF Reset!Below
<1>2. PICK d \in dirs, g \in some :
        /\ e = SubSeq(g, 1, Len(d.real) + 1)
        /\ Reset!Under(g, d.real) /\ Len(g) > Len(d.real) /\ g[Len(d.real) + 1] # "lost+found"
  BY <1>1 DEF Reset!EntriesOf
<1>3. f \in Seq(Reset!Names) /\ g \in Seq(Reset!Names) /\ d.real \in Seq(Reset!Names)
  BY <1>2 DEF Reset!Below
<1> DEFINE n == Len(d.real)
<1>4. n \in Nat /\ Len(f) \in Nat /\ Len(g) \in Nat
  BY <1>3
<1>5. e \in Seq(Reset!Names) /\ Len(e) = n + 1 /\ \A i \in 1 .. n + 1 : e[i] = g[i]
  BY <1>2, <1>3, <1>4
<1>6. Len(f) >= n + 1 /\ SubSeq(e, 1, n + 1) = SubSeq(f, 1, n + 1)
  BY <1>1, <1>5 DEF Reset!Under, Reset!IsPrefix
<1>7. \A i \in 1 .. n + 1 : f[i] = g[i]
  <2>1. TAKE i \in 1 .. n + 1
  <2>2. SubSeq(e, 1, n + 1)[i] = e[i] /\ SubSeq(f, 1, n + 1)[i] = f[i]
    BY <1>3, <1>4, <1>5, <1>6
  <2> QED BY <1>5, <1>6, <2>2
<1>8. SubSeq(g, 1, n) = SubSeq(f, 1, n)
  <2>1. SubSeq(g, 1, n) \in Seq(Reset!Names) /\ Len(SubSeq(g, 1, n)) = n
    BY <1>2, <1>3, <1>4
  <2>2. SubSeq(f, 1, n) \in Seq(Reset!Names) /\ Len(SubSeq(f, 1, n)) = n
    BY <1>3, <1>4, <1>6
  <2>3. \A i \in 1 .. n : SubSeq(g, 1, n)[i] = SubSeq(f, 1, n)[i]
    BY <1>2, <1>3, <1>4, <1>6, <1>7
  <2> QED BY <2>1, <2>2, <2>3
<1>9. Reset!Under(f, d.real)
  BY <1>2, <1>6, <1>8, <1>4 DEF Reset!Under, Reset!IsPrefix
<1>10. Len(f) > n /\ f[n + 1] # "lost+found"
  BY <1>2, <1>4, <1>6, <1>7
<1>11. SubSeq(f, 1, n + 1) \in Reset!EntriesOf(dirs, others)
  BY <1>9, <1>10, <1>2 DEF Reset!EntriesOf
<1> QED BY <1>11

-----------------------------------------------------------------------------
(* The rings.                                                              *)

(* NodeReset counts as FiniteSets does.                                     *)
LEMMA SameCount ==
    ASSUME NEW S
    PROVE  Reset!IsFiniteSet(S) = IsFiniteSet(S) /\ Reset!Cardinality(S) = Cardinality(S)
<1>1. Reset!IsFiniteSet(S) = IsFiniteSet(S)
  BY DEF Reset!IsFiniteSet, IsFiniteSet
<1>2. Reset!Cardinality(S) = Cardinality(S)
  BY DEF Reset!Cardinality, Cardinality
<1> QED BY <1>1, <1>2

(* A set with two members has more than one.                               *)
LEMMA MoreThanOne ==
    ASSUME NEW S, IsFiniteSet(S), NEW a \in S, NEW b \in S, a # b
    PROVE  Cardinality(S) > 1
<1>1. Cardinality(S) # 0
  BY FS_EmptySet
<1>2. Cardinality(S) # 1
  BY FS_Singleton
<1>3. Cardinality(S) \in Nat
  BY FS_CardinalityType
<1> QED BY <1>1, <1>2, <1>3

(* A ring has one entry a node, so it is finite.                           *)
LEMMA RingFinite ==
    ASSUME ResetTypes
    PROVE  IsFiniteSet(Reset!MainRing)
<1> DEFINE ids == {n.id : n \in Reset!MainRing}
           all == Targets \cup (Members \cup {"ghost"})
           entry == [i \in ids |-> CHOOSE n \in Reset!MainRing : n.id = i]
<1>1. IsFiniteSet(all)
  <2>1. IsFiniteSet(Targets) /\ IsFiniteSet(Members)
    BY ResetAssumption, SameCount DEF Reset!HostsAssumption
  <2>2. IsFiniteSet({"ghost"})
    BY FS_Singleton
  <2>3. IsFiniteSet(Members \cup {"ghost"})
    BY <2>1, <2>2, FS_Union
  <2> QED BY <2>1, <2>3, FS_Union
<1>2. ids \in SUBSET all
  BY DEF Reset!MainRing, Reset!Entry, Reset!Others
<1>3. IsFiniteSet(ids)
  BY <1>1, <1>2, FS_Subset
<1>4. ASSUME NEW m \in Reset!MainRing, NEW n \in Reset!MainRing, m.id = n.id PROVE m = n
  <2> DEFINE member(x) == [addr |-> <<x, "now">>, id |-> x, up |-> TRUE]
             dead == [addr |-> Reset!Ghost, id |-> "ghost", up |-> FALSE]
  <2>1. \A x \in Targets : x # "ghost" /\ x \notin Members
    BY ProfileOk
  <2>2. "ghost" \notin Members
    BY ResetAssumption DEF Reset!HostsAssumption
  <2>3. ASSUME NEW x \in Reset!MainRing
        PROVE  \/ x.id \in Members /\ x = member(x.id)
               \/ x.id \in Targets /\ x = Reset!Entry(x.id)
               \/ x.id = "ghost" /\ x = dead
    BY DEF Reset!MainRing, Reset!Others, Reset!Entry
  <2> HIDE DEF member, dead
  <2> QED BY <1>4, <2>1, <2>2, <2>3
<1>5. entry \in Surjection(ids, Reset!MainRing)
  BY <1>4 DEF Surjection
<1> QED BY <1>3, <1>5, FS_Surjection

(* A member that is down is in the ring every member shows: a host with    *)
(* data is only reset when it is the dead node replaced.                   *)
LEMMA DownMemberSeen ==
    ASSUME ResetTypes, NEW t \in Targets, NEW r \in Reset!Readings,
           jvm[t] = "down", inRing[t] \in {"joining", "main"}, ~Reset!RingRefused(t, TRUE, r)
    PROVE  r.replaced = Reset!AddrOf(t)
<1> DEFINE n == Reset!Entry(t)
           its == IF t \in r.own THEN {o.id : o \in {x \in Reset!OwnRing(t) : x.addr \in Reset!Mine(t)}} ELSE {}
<1>1. PICK m \in r.usable : TRUE
  BY DEF Reset!RingRefused
<1>2. m \in Reset!Others
  BY <1>1 DEF Reset!Readings
<1>3. n \in Reset!MainRing /\ n.addr = Reset!AddrOf(t) /\ n.id = t /\ ~n.up
  BY DEF Reset!MainRing, Reset!Entry
<1>4. t \notin r.blind[m]
  BY <1>2 DEF Reset!Readings, Reset!Up
<1>5. n \in Reset!RingSeenBy(m, r)
  BY <1>3, <1>4 DEF Reset!RingSeenBy
<1>6. ~Reset!SeenRefused(t, TRUE, n, its, r.replaced)
  BY <1>1, <1>5 DEF Reset!RingRefused
<1>7. n.addr \notin Reset!Known \/ n.addr \in Reset!Mine(t)
  <2>1. Reset!At(t).under \in {"now", "old"}
    BY ProfileOk DEF Reset!TargetOk
  <2> QED BY <1>3, <2>1 DEF Reset!AddrOf, Reset!Known, Reset!Mine, Reset!Now
<1> HIDE DEF n, its
<1> QED BY <1>3, <1>6, <1>7 DEF Reset!SeenRefused

(* One that runs and is not refused is in no ring but its own.             *)
LEMMA RunsAlone ==
    ASSUME ResetTypes, NEW t \in Targets, NEW r \in Reset!Readings,
           jvm[t] # "down", kind # "cluster", r.usable # {}, ~Reset!OwnRefused(t, r)
    PROVE  inRing[t] = "none"
<1>1. Cardinality(Reset!OwnRing(t)) > 1 => \A n \in Reset!OwnRing(t) : n.addr \in Reset!Mine(t)
  <2>1. ~(Cardinality(Reset!OwnRing(t)) > 1 /\ \E n \in Reset!OwnRing(t) : n.addr \notin Reset!Mine(t))
    BY SameCount DEF Reset!OwnRefused
  <2> QED BY <2>1
<1>2. ASSUME inRing[t] \in {"joining", "main"} PROVE FALSE
  <2>1. PICK m \in Members : TRUE
    BY DEF Reset!Readings, Reset!Others
  <2> DEFINE e == [addr |-> <<m, "now">>, id |-> m, up |-> TRUE]
  <2>2. Reset!OwnRing(t) = Reset!MainRing
    BY <1>2 DEF Reset!OwnRing
  <2>3. e \in Reset!MainRing
    BY DEF Reset!MainRing, Reset!Others
  <2>4. Reset!Entry(t) \in Reset!MainRing
    BY <1>2 DEF Reset!MainRing
  <2>5. m # t
    BY ProfileOk
  <2>6. e # Reset!Entry(t)
    BY <2>5 DEF Reset!Entry
  <2>7. e.addr \notin Reset!Mine(t)
    BY <2>5 DEF Reset!Mine, Reset!Now, Reset!Old
  <2> HIDE DEF e
  <2>8. Cardinality(Reset!MainRing) > 1
    BY <2>3, <2>4, <2>6, RingFinite, MoreThanOne
  <2> QED BY <1>1, <2>2, <2>3, <2>7, <2>8
<1>3. ASSUME inRing[t] = "other" PROVE FALSE
  <2> DEFINE e == [addr |-> <<"foreign", "now">>, id |-> "foreign", up |-> TRUE]
  <2>1. Reset!OwnRing(t) = {Reset!Entry(t), e}
    BY <1>3 DEF Reset!OwnRing
  <2>2. t # "foreign"
    BY ProfileOk
  <2>3. e # Reset!Entry(t)
    BY <2>2 DEF Reset!Entry
  <2>4. e.addr \notin Reset!Mine(t)
    BY <2>2 DEF Reset!Mine, Reset!Now, Reset!Old
  <2> HIDE DEF e
  <2>5. IsFiniteSet({Reset!Entry(t)} \cup {e})
    BY FS_Singleton, FS_Union
  <2>6. Reset!OwnRing(t) = {Reset!Entry(t)} \cup {e}
    BY <2>1
  <2>7. Cardinality(Reset!OwnRing(t)) > 1
    BY <2>3, <2>5, <2>6, MoreThanOne
  <2> QED BY <1>1, <2>1, <2>4, <2>7
<1> QED BY <1>2, <1>3 DEF ResetTypes

(* A cluster reset as a whole has no other node.                           *)
LEMMA ClusterWhole ==
    ASSUME ResetTypes, NEW t \in Targets, NEW r \in Reset!Readings, kind = "cluster",
           ~Reset!ClusterRefused(r), inRing[t] \in {"joining", "main"},
           NEW u \in Reset!Up, Reset!Mine(t) \cap {n.addr : n \in Reset!OwnRing(u)} # {}
    PROVE  ~ghost
<1>1. u \in Targets /\ u \in Reset!Up \cap r.own
  BY DEF Reset!ClusterRefused, Reset!Up
<1>2. \A n \in Reset!OwnRing(u) : n.addr \in Reset!Known
  BY <1>1 DEF Reset!ClusterRefused
<1>3. \A x \in Targets : x # "ghost" /\ x # "foreign"
  BY ProfileOk
<1>4. CASE inRing[u] \in {"joining", "main"}
  <2>1. Reset!OwnRing(u) = Reset!MainRing
    BY <1>4 DEF Reset!OwnRing
  <2>2. Reset!Ghost \notin Reset!Known
    BY <1>3 DEF Reset!Ghost, Reset!Known, Reset!Now, Reset!Others
  <2>3. ghost => [addr |-> Reset!Ghost, id |-> "ghost", up |-> FALSE] \in Reset!MainRing
    BY DEF Reset!MainRing
  <2> QED BY <1>2, <2>1, <2>2, <2>3
<1>5. CASE inRing[u] = "other"
  <2>1. [addr |-> <<"foreign", "now">>, id |-> "foreign", up |-> TRUE] \in Reset!OwnRing(u)
    BY <1>5 DEF Reset!OwnRing
  <2>2. <<"foreign", "now">> \notin Reset!Known
    BY <1>3 DEF Reset!Known, Reset!Now, Reset!Others
  <2> QED BY <1>2, <2>1, <2>2
<1>6. CASE inRing[u] = "none"
  <2>1. Reset!OwnRing(u) = {Reset!Entry(u)}
    BY <1>6 DEF Reset!OwnRing
  <2>2. Reset!AddrOf(u) \in Reset!Mine(t)
    BY <2>1 DEF Reset!Entry
  <2>3. u = t
    BY <2>2 DEF Reset!AddrOf, Reset!Mine, Reset!Now, Reset!Old
  <2> QED BY <1>6, <2>3
<1> QED BY <1>1, <1>4, <1>5, <1>6 DEF ResetTypes

-----------------------------------------------------------------------------
(* The plan.                                                               *)

(* What a run finds is what it would find through the links as they are.   *)
LEMMA FoundNow ==
    ASSUME NEW t
    PROVE  Reset!Found(t) = FoundBy(t, links[t])
BY DEF FoundBy, Reset!Found, Reset!Listed, Reset!Yaml, Reset!DirsBy

(* What a run finds on a target, from its host, its files and its links.   *)
LEMMA FoundSame ==
    ASSUME NEW t, like' = like, present'[t] = present[t]
    PROVE  /\ LinksOfTarget(t)' = LinksOfTarget(t)
           /\ \A l \in LinksOfTarget(t) : FoundBy(t, l)' = FoundBy(t, l)
           /\ Reset!OfCluster(t)' = Reset!OfCluster(t) /\ Reset!AddrOf(t)' = Reset!AddrOf(t)
BY DEF LinksOfTarget, FoundBy, Reset!FoundAt, Reset!FoundIn, Reset!At, Reset!OfCluster, Reset!Yaml, Reset!AddrOf

(* A target the checks let a run reset: what it holds may go.              *)
LEMMA NotRefused ==
    ASSUME ResetInv, NEW t \in Targets, NEW r \in Reset!Readings,
           Reset!Found(t).delete # {}, ~Reset!Refused(t, Reset!Found(t), r),
           kind = "cluster" => ~Reset!ClusterRefused(r)
    PROVE  /\ ~FoundBy(t, links[t]).refused
           /\ Fit(t, links[t], r.replaced)
           /\ IF kind = "add" THEN jvm[t] = "down" ELSE jvm[t] \in {"down", "unit"}
<1> DEFINE f == FoundBy(t, links[t])
<1>0. /\ f.delete # {} /\ ~Reset!Refused(t, f, r)
      /\ kind \in {"reset", "add", "replace", "cluster"}
      /\ jvm[t] \in {"down", "unit", "hand"} /\ inRing[t] \in {"none", "joining", "main", "other"}
      /\ links[t] \in LinksOfTarget(t)
  BY FoundNow, ResetAssumption DEF ResetInv, ResetTypes, Reset!HostsAssumption
<1>1. Reset!AddrOf(t) # Reset!None
  BY ProfileOk DEF ResetInv, Reset!AddrOf, Reset!None
<1> HIDE DEF f
<1>2. CASE kind = "add"
  <2>1. ~f.refused /\ ~Reset!AddRefused(t, f, r)
    BY <1>0, <1>2 DEF Reset!Refused
  <2>2. /\ jvm[t] = "down" /\ ~Reset!RingRefused(t, TRUE, r)
        /\ f.peers => Reset!OfCluster(t) = {"main"}
        /\ f.users # {} => mark[t] \/ explicit
    BY <2>1 DEF Reset!AddRefused
  <2>3. r.replaced = Reset!None
    BY <1>2 DEF Reset!Readings, Reset!Replaces
  <2>4. inRing[t] \notin {"joining", "main"}
    BY <1>1, <2>2, <2>3, DownMemberSeen DEF ResetInv
  <2>5. inRing[t] # "other"
    BY <1>0, <1>2, <2>2 DEF ResetInv, StillOther, f
  <2> QED BY <1>0, <1>2, <2>1, <2>2, <2>4, <2>5 DEF Fit, f
<1>3. CASE kind = "cluster"
  <2>1. /\ ~f.refused /\ ~Reset!OtherCluster(t) /\ jvm[t] # "hand"
        /\ \E u \in Reset!Up : Reset!Mine(t) \cap {n.addr : n \in Reset!OwnRing(u)} # {}
    BY <1>0, <1>3 DEF Reset!Refused
  <2>2. Reset!OfCluster(t) # {"other"}
    BY <2>1 DEF Reset!OtherCluster
  <2>3. inRing[t] \in {"joining", "main"} => ~ghost
    BY <1>3, <2>1, ClusterWhole DEF ResetInv
  <2> QED BY <1>0, <1>3, <2>1, <2>2, <2>3 DEF Fit, f
<1>4. CASE kind \in {"reset", "replace"}
  <2>1. /\ ~f.refused /\ ~Reset!OtherCluster(t) /\ jvm[t] # "hand"
        /\ ~Reset!RingRefused(t, f.delete # {}, r)
    BY <1>0, <1>4 DEF Reset!Refused
  <2>2. Reset!OfCluster(t) # {"other"}
    BY <2>1 DEF Reset!OtherCluster
  <2>3. ~Reset!RingRefused(t, TRUE, r)
    <3>1. (f.delete # {}) = TRUE
      BY <1>0
    <3> QED BY <2>1, <3>1
  <2>4. kind = "reset" => r.replaced = Reset!None
    BY DEF Reset!Readings, Reset!Replaces
  <2>5. inRing[t] \in {"joining", "main"} => kind = "replace" /\ r.replaced = Reset!AddrOf(t)
    <3>1. CASE jvm[t] = "down"
      BY <1>1, <1>4, <2>3, <2>4, <3>1, DownMemberSeen DEF ResetInv
    <3>2. CASE jvm[t] # "down"
      BY <1>4, <2>3, <3>2, RunsAlone DEF ResetInv, Reset!RingRefused
    <3> QED BY <3>1, <3>2
  <2> QED BY <1>0, <1>4, <2>1, <2>2, <2>5 DEF Fit, f
<1> QED BY <1>0, <1>2, <1>3, <1>4

(* A target with nothing listed, and not refused, has no cassandra.yaml.   *)
LEMMA NothingListed ==
    ASSUME NEW p, NEW l, Reset!DirsBy(p, l).dirs = {}, ~Reset!DirsBy(p, l).refused, ~p.unread
    PROVE  p.yaml = {}
<1> DEFINE listed == Reset!ListedDirs(p.inventory, p.yaml, p.mounted, p.protected)
<1>1. listed.dirs = {} /\ ~listed.refused
  BY DEF Reset!DirsBy, Reset!RealDirs
<1>2. p.inventory \cup UNION {Reset!LiveDirs(y) : y \in p.yaml} = {}
  <2> DEFINE found == p.inventory \cup UNION {Reset!LiveDirs(y) : y \in p.yaml}
             kept == {f \in found : ~Reset!PathRefused(f[2], p.mounted, p.protected)}
  <2>1. kept = found
    BY <1>1 DEF Reset!ListedDirs
  <2>2. ASSUME NEW f \in kept PROVE FALSE
    <3>1. [path |-> f[2], kinds |-> {g[1] : g \in {h \in kept : h[2] = f[2]}}] \in listed.dirs
      BY DEF Reset!ListedDirs
    <3> QED BY <1>1, <3>1
  <2> HIDE DEF kept
  <2> QED BY <2>1, <2>2
<1>3. ASSUME NEW y \in p.yaml PROVE FALSE
  <2> DEFINE key == "data_file_directories"
  <2>1. key \in DOMAIN Reset!LiveKeys
    BY DEF Reset!LiveKeys
  <2>2. Reset!HasDefault(key, y.cdc)
    BY DEF Reset!HasDefault
  <2>3. Reset!DirsOf(key, y) # {}
    BY <2>2 DEF Reset!DirsOf
  <2>4. Reset!LiveDirs(y) # {}
    <3>1. PICK d \in Reset!DirsOf(key, y) : TRUE
      BY <2>3
    <3> HIDE DEF key
    <3>2. <<Reset!LiveKeys[key], d>> \in {Reset!LiveKeys[key]} \X Reset!DirsOf(key, y)
      OBVIOUS
    <3> QED BY <2>1, <3>2 DEF Reset!LiveDirs
  <2> QED BY <1>2, <2>4
<1> QED BY <1>3

(* A member of another ring stays one while its files stay.                *)
LEMMA StillOtherKept ==
    ASSUME NEW t, StillOther(t), like' = like, present[t] \subseteq present'[t]
    PROVE  StillOther(t)'
BY DEF StillOther, LinksOfTarget, FoundBy, Reset!FoundAt, Reset!FoundIn, Reset!At, Reset!OfCluster, Reset!Yaml

(* A host keeps its plan while nothing changes there.                      *)
LEMMA PlanInvSame ==
    ASSUME NEW t, PlanInv(t), UNCHANGED <<like, kind, ghost, explicit, pc, plan, replaced>>,
           present'[t] = present[t], jvm'[t] = jvm[t], boot'[t] = boot[t], inRing'[t] = inRing[t],
           mark'[t] = mark[t], waited' = waited \/ waited' = 1
    PROVE  PlanInv(t)'
<1>1. ASSUME NEW l \in LinksOfTarget(t), Fit(t, l, replaced) PROVE Fit(t, l, replaced)'
  BY <1>1, FoundSame DEF Fit
<1>2. Fits(t) => Fits(t)'
  BY <1>1, FoundSame DEF Fits
<1> QED BY <1>2 DEF PlanInv, Reset!At, Reset!Nothing

(* What Cassandra writes in a directory.                                   *)
LEMMA NewFiles ==
    ASSUME ResetTypes, NEW t \in Targets
    PROVE  Reset!FilesOfNew(t) \subseteq Seq(Reset!Names)
<1>1. ASSUME NEW d \in Reset!At(t).inventory
      PROVE  Reset!RealPath(d[2], links[t]) \o <<"system", "local">> \in Seq(Reset!Names)
  <2>1. d[2] \in Seq(Reset!Names) /\ \A x \in DOMAIN links[t] : x \in Seq(Reset!Names) /\ links[t][x] \in Seq(Reset!Names)
    BY ProfileOk DEF ResetTypes, LinksOfTarget, Reset!TargetOk
  <2>2. Reset!RealPath(d[2], links[t]) \in Seq(Reset!Names)
    BY <2>1, RealPathType
  <2>3. <<"system", "local">> \in Seq(Reset!Names)
    BY DEF Reset!Names
  <2> QED BY <2>2, <2>3
<1> QED BY <1>1 DEF Reset!FilesOfNew

(* At first, each target is as its profile.                                *)
LEMMA InitReset == Reset!Init => ResetInv
<1> SUFFICES ASSUME Reset!Init PROVE ResetInv
  OBVIOUS
<1>1. like \in [Targets -> DOMAIN ResetHost!Profiles]
  BY DEF Reset!Init
<1>2. ASSUME NEW t \in Targets PROVE Reset!TargetOk(Reset!At(t))
  BY <1>1, ResetAssumption DEF Reset!HostsAssumption, Reset!At
<1>3. ResetTypes
  <2>1. present \in [Targets -> SUBSET Seq(Reset!Names)]
    BY <1>2 DEF Reset!Init, Reset!TargetOk
  <2>2. DOMAIN links = Targets /\ \A t \in Targets : links[t] \in LinksOfTarget(t)
    BY DEF Reset!Init, LinksOfTarget, Reset!LinksOf
  <2>3. /\ jvm \in [Targets -> {"down", "unit", "hand"}]
        /\ boot \in [Targets -> BOOLEAN] /\ mark \in [Targets -> BOOLEAN]
        /\ inRing \in [Targets -> {"none", "joining", "main", "other"}]
    BY <1>2 DEF Reset!Init, Reset!TargetOk
  <2> QED BY <1>1, <2>1, <2>2, <2>3 DEF ResetTypes, Reset!Init
<1>4. ASSUME NEW t \in Targets, inRing[t] = "other" PROVE StillOther(t)
  <2>1. Reset!OtherMember(Reset!At(t)) /\ present[t] = Reset!At(t).files
    BY <1>2, <1>4 DEF Reset!Init, Reset!TargetOk
  <2> QED BY <2>1 DEF Reset!OtherMember, StillOther, LinksOfTarget, FoundBy, Reset!FoundAt, Reset!FoundIn,
                      Reset!OfCluster, Reset!Yaml
<1> QED BY <1>3, <1>4 DEF ResetInv, Reset!Init, Going

-----------------------------------------------------------------------------
(* The steps.                                                              *)

(* The plan read, of every host before any of them changes.                *)
LEMMA PlanStep ==
    ASSUME ResetInv, Reset!Plan
    PROVE  ResetInv'
<1>1. /\ UNCHANGED <<present, links, jvm, boot, inRing, mark, like, kind, explicit, ghost>>
      /\ waited' = 0
  BY DEF Reset!Plan, Reset!hosts, Reset!fixed
<1>2. ResetTypes'
  BY <1>1 DEF ResetInv, ResetTypes, LinksOfTarget, Reset!At
<1>3. ASSUME kind' = "add", NEW t \in Targets, inRing'[t] = "other" PROVE StillOther(t)'
  BY <1>1, <1>3, StillOtherKept DEF ResetInv
<1>4. ASSUME Going', NEW t \in Targets PROVE PlanInv(t)'
  <2> DEFINE new(r) == {f \in {Reset!Found(u) : u \in Targets} :
                          f.target \in r.named /\ (kind = "add" => ~Reset!InRing(f.target, Reset!First, r))}
             no(r) == {f.target : f \in {g \in new(r) : Reset!Refused(g.target, g, r)}}
  <2>1. PICK r \in Reset!Readings :
          Reset!Answered(r, kind = "cluster" \/ Reset!FirstChecks(Reset!First, r), new(r), no(r))
    BY DEF Reset!Plan
  <2> DEFINE N == new(r)
  <2>2. /\ pc' = "asked" /\ no(r) = {} /\ replaced' = r.replaced
        /\ kind = "cluster" => ~Reset!ClusterRefused(r)
        /\ plan'[t] = IF \E f \in N : f.target = t
                      THEN Reset!PlanOf(t, CHOOSE f \in N : f.target = t) ELSE Reset!Nothing
    <3>1. pc' # "idle"
      BY <1>4 DEF Going
    <3> HIDE DEF new, no
    <3> QED BY <2>1, <3>1 DEF Reset!Answered
  <2>3. \A u : Reset!Found(u).target = u
    BY DEF Reset!Found, Reset!FoundAt, Reset!FoundIn
  <2>4. CASE \E f \in N : f.target = t
    <3> DEFINE f == Reset!Found(t)
    <3>1. \A g \in N : g.target = t => g = f
      BY <2>3
    <3>2. f \in N /\ (CHOOSE g \in N : g.target = t) = f
      BY <2>4, <3>1
    <3>3. ~Reset!Refused(t, f, r)
      BY <2>2, <2>3, <3>2
    <3>4. plan'[t] = Reset!PlanOf(t, f)
      BY <2>2, <2>4, <3>2
    <3> HIDE DEF f, N, new, no
    <3>5. /\ plan'[t].real = f.dirs /\ plan'[t].delete = f.delete
          /\ plan'[t].stop = (kind # "add" /\ jvm[t] # "down")
          /\ plan'[t].disable = (boot[t] /\ (kind # "add" \/ f.delete # {}))
      BY <3>4 DEF Reset!PlanOf
    <3>6. ASSUME f.delete # {}
          PROVE  Fits(t)' /\ IF kind = "add" THEN jvm[t] = "down" ELSE jvm[t] \in {"down", "unit"}
      <4>1. /\ ~FoundBy(t, links[t]).refused /\ Fit(t, links[t], r.replaced)
            /\ IF kind = "add" THEN jvm[t] = "down" ELSE jvm[t] \in {"down", "unit"}
        BY <2>2, <3>3, <3>6, NotRefused DEF f
      <4>2. links[t] \in LinksOfTarget(t)
        BY DEF ResetInv, ResetTypes
      <4>3. FoundBy(t, links[t])' = FoundBy(t, links[t]) /\ FoundBy(t, links[t]) = f
        BY <1>1, <4>2, FoundSame, FoundNow DEF f
      <4>4. Fit(t, links[t], replaced)'
        BY <1>1, <2>2, <4>1, <4>3, FoundSame DEF Fit
      <4>5. links'[t] = links[t] /\ links[t] \in LinksOfTarget(t)'
        BY <1>1, <4>2 DEF LinksOfTarget, Reset!At
      <4> QED BY <1>1, <3>5, <4>1, <4>3, <4>4, <4>5 DEF Fits
    <3>7. ASSUME kind = "cluster", plan'[t] = Reset!Nothing
          PROVE  jvm[t] = "down" /\ Reset!At(t).yaml = {}
      <4>1. f.dirs = {} /\ jvm[t] = "down"
        <5>1. plan'[t].real = {} /\ plan'[t].stop = FALSE
          BY <3>7 DEF Reset!Nothing
        <5>2. kind # "add"
          BY <3>7
        <5> QED BY <3>5, <5>1, <5>2
      <4>2. ~f.refused
        BY <3>3, <3>7 DEF Reset!Refused
      <4>3. /\ Reset!DirsBy(Reset!At(t), links[t]).dirs = {} /\ ~Reset!DirsBy(Reset!At(t), links[t]).refused
            /\ ~Reset!At(t).unread
        BY <4>1, <4>2, FoundNow DEF f, FoundBy, Reset!FoundAt, Reset!FoundIn
      <4> QED BY <4>1, <4>3, NothingListed
    <3> QED BY <1>1, <2>2, <3>5, <3>6, <3>7 DEF PlanInv, Reset!At
  <2>5. CASE ~ \E f \in N : f.target = t
    <3>1. plan'[t] = Reset!Nothing
      BY <2>2, <2>5
    <3>2. kind # "cluster"
      <4>1. kind = "cluster" => r.named = Targets
        BY DEF Reset!Readings, Reset!Named
      <4>2. kind = "cluster" => Reset!Found(t) \in N
        BY <2>3, <4>1
      <4> QED BY <2>3, <2>5, <4>2
    <3> QED BY <1>1, <3>1, <3>2 DEF PlanInv, Reset!Nothing
  <2> QED BY <2>4, <2>5
<1> QED BY <1>1, <1>2, <1>3, <1>4 DEF ResetInv

(* The tasks of a run that has its answer.                                 *)
LEMMA StopStep ==
    ASSUME ResetInv, Reset!Stop
    PROVE  ResetInv'
<1>1. PICK done \in SUBSET {t \in Targets : plan[t].stop} :
        /\ jvm' = [t \in Targets |-> IF t \in done /\ jvm[t] = "unit" THEN "down" ELSE jvm[t]]
        /\ pc' = IF done = {t \in Targets : plan[t].stop} THEN "stopped" ELSE "idle"
  BY DEF Reset!Stop, Reset!OnEach
<1>2. /\ pc = "asked"
      /\ UNCHANGED <<present, links, boot, inRing, mark, like, kind, explicit, ghost, plan, replaced, waited>>
  BY DEF Reset!Stop, Reset!fixed
<1>3. ResetTypes'
  BY <1>1, <1>2 DEF ResetInv, ResetTypes, LinksOfTarget, Reset!At
<1>4. ASSUME kind' = "add", NEW t \in Targets, inRing'[t] = "other" PROVE StillOther(t)'
  BY <1>2, <1>4, StillOtherKept DEF ResetInv
<1>5. ASSUME Going', NEW t \in Targets PROVE PlanInv(t)'
  <2>1. pc' = "stopped" /\ done = {u \in Targets : plan[u].stop}
    BY <1>1, <1>5 DEF Going
  <2>2. PlanInv(t) /\ jvm[t] \in {"down", "unit", "hand"}
    BY <1>2 DEF ResetInv, ResetTypes, Going
  <2>3. jvm'[t] = IF plan[t].stop /\ jvm[t] = "unit" THEN "down" ELSE jvm[t]
    BY <1>1, <2>1
  <2>4. Fits(t) => Fits(t)'
    BY <1>2, FoundSame DEF Fits, Fit
  <2>5. plan[t].delete # {} /\ jvm'[t] # "down" => waited = 1
    BY <1>2, <2>2, <2>3 DEF PlanInv
  <2>6. plan[t].delete # {} /\ jvm'[t] = "down" => Fits(t)
    BY <1>2, <2>2, <2>3 DEF PlanInv
  <2> QED BY <1>2, <2>1, <2>2, <2>3, <2>4, <2>5, <2>6 DEF PlanInv, Reset!At, Reset!Nothing
<1> QED BY <1>3, <1>4, <1>5 DEF ResetInv

(* The hosts it is for no longer start at boot.                            *)
LEMMA DisableStep ==
    ASSUME ResetInv, Reset!Disable
    PROVE  ResetInv'
<1>1. PICK done \in SUBSET {t \in Targets : plan[t].disable} :
        /\ boot' = [t \in Targets |-> boot[t] /\ t \notin done]
        /\ pc' = IF done = {t \in Targets : plan[t].disable} THEN "disabled" ELSE "idle"
  BY DEF Reset!Disable, Reset!OnEach
<1>2. /\ pc = "stopped"
      /\ UNCHANGED <<present, links, jvm, inRing, mark, like, kind, explicit, ghost, plan, replaced, waited>>
  BY DEF Reset!Disable, Reset!fixed
<1>3. ResetTypes'
  BY <1>1, <1>2 DEF ResetInv, ResetTypes, LinksOfTarget, Reset!At
<1>4. ASSUME kind' = "add", NEW t \in Targets, inRing'[t] = "other" PROVE StillOther(t)'
  BY <1>2, <1>4, StillOtherKept DEF ResetInv
<1>5. ASSUME Going', NEW t \in Targets PROVE PlanInv(t)'
  <2>1. pc' = "disabled" /\ done = {u \in Targets : plan[u].disable}
    BY <1>1, <1>5 DEF Going
  <2>2. PlanInv(t)
    BY <1>2 DEF ResetInv, Going
  <2>3. boot'[t] = (boot[t] /\ ~plan[t].disable)
    BY <1>1, <2>1
  <2>4. Fits(t) => Fits(t)'
    BY <1>2, FoundSame DEF Fits, Fit
  <2> QED BY <1>2, <2>1, <2>2, <2>3, <2>4 DEF PlanInv, Reset!At, Reset!Nothing
<1> QED BY <1>3, <1>4, <1>5 DEF ResetInv

(* The directories are emptied: of the hosts, only those whose data may go *)
(* lose any.                                                               *)
LEMMA DeletesFit ==
    ASSUME ResetInv, pc = "disabled", NEW t \in Targets, plan[t].delete # {},
           \A u \in Targets : Reset!Resets(u) => jvm[u] = "down" /\ Reset!StillThere(u)
    PROVE  jvm[t] = "down" /\ ~boot[t] /\ Reset!StillThere(t) /\ Fits(t)
<1>1. plan[t] # Reset!Nothing
  BY DEF Reset!Nothing
<1>2. Reset!Resets(t)
  BY <1>1 DEF Reset!Resets
<1> QED BY <1>2 DEF ResetInv, Going, PlanInv

(* A host of another ring keeps its files under add_node, whose plan lists *)
(* none of them.                                                           *)
LEMMA EmptyStep ==
    ASSUME ResetInv, Reset!Empty
    PROVE  ResetInv'
<1>1. /\ pc = "disabled" /\ ~Going'
      /\ UNCHANGED <<links, jvm, boot, inRing, mark, like, kind, explicit, ghost, waited>>
  BY DEF Reset!Empty, Reset!fixed, Going
<1>2. \/ present' = present
      \/ \E gone \in [Targets -> UNION {SUBSET plan[t].delete : t \in Targets}] :
           /\ \A u \in Targets : Reset!Resets(u) => jvm[u] = "down" /\ Reset!StillThere(u)
           /\ \A t \in Targets : gone[t] \subseteq plan[t].delete
           /\ present' = [t \in Targets |-> present[t] \ Reset!Below(gone[t], present[t])]
  BY DEF Reset!Empty
<1>3. ResetTypes'
  <2>1. present' \in [Targets -> SUBSET Seq(Reset!Names)]
    BY <1>2 DEF ResetInv, ResetTypes
  <2> QED BY <1>1, <2>1 DEF ResetInv, ResetTypes, LinksOfTarget, Reset!At
<1>4. ASSUME kind' = "add", NEW t \in Targets, inRing'[t] = "other" PROVE StillOther(t)'
  <2>1. kind = "add" /\ inRing[t] = "other" /\ StillOther(t)
    BY <1>1, <1>4 DEF ResetInv
  <2>2. ~Fits(t)
    BY <2>1 DEF Fits, Fit
  <2>3. present[t] \subseteq present'[t]
    <3>1. CASE present' = present
      BY <3>1
    <3>2. CASE present' # present
      <4>1. PICK gone \in [Targets -> UNION {SUBSET plan[u].delete : u \in Targets}] :
              /\ \A u \in Targets : Reset!Resets(u) => jvm[u] = "down" /\ Reset!StillThere(u)
              /\ \A u \in Targets : gone[u] \subseteq plan[u].delete
              /\ present' = [u \in Targets |-> present[u] \ Reset!Below(gone[u], present[u])]
        BY <1>2, <3>2
      <4>2. plan[t].delete = {}
        BY <1>1, <2>2, <4>1, DeletesFit
      <4>3. gone[t] = {}
        BY <4>1, <4>2
      <4>4. Reset!Below({}, present[t]) = {}
        BY DEF Reset!Below
      <4> QED BY <4>1, <4>3, <4>4
    <3> QED BY <3>1, <3>2
  <2> QED BY <1>1, <2>1, <2>3, StillOtherKept
<1> QED BY <1>1, <1>3, <1>4 DEF ResetInv

(* The rest of a run.                                                      *)
LEMMA EndSteps ==
    ASSUME ResetInv, Reset!Unmark \/ Reset!Start \/ Reset!Stopped
    PROVE  ResetInv'
<1>1. CASE Reset!Unmark
  <2>1. /\ ~Going' /\ mark' = [t \in Targets |-> mark[t] /\ plan[t].delete = {}]
        /\ UNCHANGED <<present, links, jvm, boot, inRing, like, kind, explicit, ghost, waited>>
    BY <1>1 DEF Reset!Unmark, Reset!fixed, Going
  <2>2. ResetTypes'
    BY <2>1 DEF ResetInv, ResetTypes, LinksOfTarget, Reset!At
  <2>3. ASSUME kind' = "add", NEW t \in Targets, inRing'[t] = "other" PROVE StillOther(t)'
    BY <2>1, <2>3, StillOtherKept DEF ResetInv
  <2> QED BY <2>1, <2>2, <2>3 DEF ResetInv
<1>2. CASE Reset!Start
  <2>1. PICK t \in Targets :
          /\ jvm' = [jvm EXCEPT ![t] = "unit"] /\ boot' = [boot EXCEPT ![t] = TRUE]
          /\ inRing' = [inRing EXCEPT ![t] = "joining"]
          /\ present' = [present EXCEPT ![t] = @ \cup Reset!FilesOfNew(t)]
          /\ mark' = [mark EXCEPT ![t] = @ \/ kind = "add"]
    BY <1>2 DEF Reset!Start
  <2>2. ~Going' /\ UNCHANGED <<links, like, kind, explicit, ghost, waited>>
    BY <1>2 DEF Reset!Start, Reset!fixed, Going
  <2>3. ResetTypes'
    <3>1. Reset!FilesOfNew(t) \subseteq Seq(Reset!Names)
      BY NewFiles DEF ResetInv
    <3>2. present' \in [Targets -> SUBSET Seq(Reset!Names)]
      BY <2>1, <3>1 DEF ResetInv, ResetTypes
    <3>3. /\ jvm' \in [Targets -> {"down", "unit", "hand"}] /\ boot' \in [Targets -> BOOLEAN]
          /\ inRing' \in [Targets -> {"none", "joining", "main", "other"}]
      BY <2>1 DEF ResetInv, ResetTypes
    <3>4. mark' \in [Targets -> BOOLEAN]
      BY <2>1 DEF ResetInv, ResetTypes
    <3> QED BY <2>2, <3>2, <3>3, <3>4 DEF ResetInv, ResetTypes, LinksOfTarget, Reset!At
  <2>4. ASSUME kind' = "add", NEW u \in Targets, inRing'[u] = "other" PROVE StillOther(u)'
    <3>1. u # t /\ inRing[u] = "other" /\ present'[u] = present[u]
      BY <2>1, <2>4 DEF ResetInv, ResetTypes
    <3> QED BY <2>2, <2>4, <3>1, StillOtherKept DEF ResetInv
  <2> QED BY <2>2, <2>3, <2>4 DEF ResetInv
<1>3. CASE Reset!Stopped
  <2>1. ~Going' /\ UNCHANGED <<present, links, jvm, boot, inRing, mark, like, kind, explicit, ghost, waited>>
    BY <1>3 DEF Reset!Stopped, Reset!hosts, Reset!fixed, Going
  <2>2. ResetTypes'
    BY <2>1 DEF ResetInv, ResetTypes, LinksOfTarget, Reset!At
  <2>3. ASSUME kind' = "add", NEW t \in Targets, inRing'[t] = "other" PROVE StillOther(t)'
    BY <2>1, <2>3, StillOtherKept DEF ResetInv
  <2> QED BY <2>1, <2>2, <2>3 DEF ResetInv
<1> QED BY <1>1, <1>2, <1>3

(* What else happens to a host, once at most while a run waits.            *)
LEMMA HostSteps ==
    ASSUME ResetInv, NEW t \in Targets,
           Reset!Starts(t) \/ Reset!GoesDown(t) \/ Reset!Joins(t) \/ Reset!Relinked(t)
    PROVE  ResetInv'
<1>1. /\ UNCHANGED <<like, kind, explicit, ghost, pc, plan, replaced>>
      /\ IF pc = "idle" THEN waited' = waited ELSE waited = 0 /\ waited' = 1
  BY DEF Reset!Starts, Reset!GoesDown, Reset!Joins, Reset!Relinked, Reset!Changes, Reset!fixed
<1>2. /\ \A u \in Targets \ {t} : /\ present'[u] = present[u] /\ jvm'[u] = jvm[u] /\ boot'[u] = boot[u]
                                  /\ inRing'[u] = inRing[u] /\ mark'[u] = mark[u]
      /\ boot' = boot /\ present[t] \subseteq present'[t]
  BY DEF ResetInv, ResetTypes, Reset!Starts, Reset!GoesDown, Reset!Joins, Reset!Relinked
<1>3. ResetTypes'
  <2>1. present' \in [Targets -> SUBSET Seq(Reset!Names)]
    BY NewFiles DEF ResetInv, ResetTypes, Reset!Starts, Reset!GoesDown, Reset!Joins, Reset!Relinked
  <2>2. DOMAIN links' = Targets /\ \A u \in Targets : links'[u] \in LinksOfTarget(u)
    BY DEF ResetInv, ResetTypes, LinksOfTarget, Reset!LinksOf, Reset!Starts, Reset!GoesDown, Reset!Joins, Reset!Relinked
  <2>3. /\ jvm' \in [Targets -> {"down", "unit", "hand"}]
        /\ inRing' \in [Targets -> {"none", "joining", "main", "other"}]
    BY DEF ResetInv, ResetTypes, Reset!Starts, Reset!GoesDown, Reset!Joins, Reset!Relinked
  <2>4. mark' \in [Targets -> BOOLEAN]
    BY DEF ResetInv, ResetTypes, Reset!Starts, Reset!GoesDown, Reset!Joins, Reset!Relinked
  <2> QED BY <1>1, <1>2, <2>1, <2>2, <2>3, <2>4 DEF ResetInv, ResetTypes, LinksOfTarget, Reset!At
<1>4. ASSUME kind' = "add", NEW u \in Targets, inRing'[u] = "other" PROVE StillOther(u)'
  <2>1. inRing[u] = "other"
    BY <1>4 DEF ResetInv, ResetTypes, Reset!Starts, Reset!GoesDown, Reset!Joins, Reset!Relinked
  <2> QED BY <1>1, <1>2, <1>4, <2>1, StillOtherKept DEF ResetInv
<1>5. ASSUME Going', NEW u \in Targets PROVE PlanInv(u)'
  <2>1. Going /\ PlanInv(u) /\ waited = 0 /\ waited' = 1
    BY <1>1, <1>5 DEF ResetInv, Going
  <2>2. CASE u # t
    BY <1>1, <1>2, <2>1, <2>2, PlanInvSame
  <2>3. CASE u = t /\ Reset!Starts(t)
    <3>1. jvm[t] = "down" /\ jvm'[t] = "unit" /\ Reset!At(t).yaml # {}
      BY <2>3 DEF ResetInv, ResetTypes, Reset!Starts
    <3> QED BY <1>1, <1>2, <2>1, <2>3, <3>1 DEF PlanInv, Reset!At, Reset!Nothing
  <2>4. CASE u = t /\ Reset!GoesDown(t)
    <3>1. /\ jvm[t] # "down" /\ jvm'[t] = "down" /\ present' = present /\ mark' = mark
          /\ inRing'[t] = IF inRing[t] = "joining" THEN "none" ELSE inRing[t]
      BY <2>4 DEF ResetInv, ResetTypes, Reset!GoesDown
    <3>2. plan[t].delete # {} => Fits(t) /\ kind # "add"
      BY <2>1, <2>4, <3>1 DEF PlanInv
    <3>3. Fits(t) /\ kind # "add" => Fits(t)'
      BY <1>1, <3>1, FoundSame DEF Fits, Fit
    <3> QED BY <1>1, <1>2, <2>1, <2>4, <3>1, <3>2, <3>3 DEF PlanInv, Reset!At, Reset!Nothing
  <2>5. CASE u = t /\ Reset!Joins(t)
    <3>1. jvm[t] # "down" /\ jvm' = jvm /\ present' = present /\ inRing[t] = "joining" /\ inRing'[t] = "main"
      BY <2>5 DEF ResetInv, ResetTypes, Reset!Joins
    <3>2. Fits(t) => Fits(t)'
      BY <1>1, <3>1, FoundSame DEF Fits, Fit
    <3> QED BY <1>1, <1>2, <2>1, <2>5, <3>1, <3>2 DEF PlanInv, Reset!At, Reset!Nothing
  <2>6. CASE u = t /\ Reset!Relinked(t)
    <3>1. UNCHANGED <<present, jvm, boot, inRing, mark>>
      BY <2>6 DEF Reset!Relinked
    <3> QED BY <1>1, <2>1, <3>1, PlanInvSame
  <2> QED BY <2>2, <2>3, <2>4, <2>5, <2>6
<1> QED BY <1>3, <1>4, <1>5 DEF ResetInv

-----------------------------------------------------------------------------
(* The directories that are still where the plan found them are the ones   *)
(* found now.                                                              *)
LEMMA SamePlaces ==
    ASSUME NEW t, NEW l, Reset!StillThere(t), plan[t].delete # {}, plan[t].real = FoundBy(t, l).dirs
    PROVE  Reset!DirsBy(Reset!At(t), l).dirs = Reset!DirsBy(Reset!At(t), links[t]).dirs
<1> DEFINE listed == Reset!Listed(t).dirs
           at(k) == {[path |-> d.path, kinds |-> d.kinds, real |-> Reset!RealPath(d.path, k)] : d \in listed}
<1>1. \A k : Reset!DirsBy(Reset!At(t), k).dirs = at(k)
  BY DEF Reset!DirsBy, Reset!RealDirs, Reset!Listed, Reset!Yaml
<1>2. {<<d.path, d.real>> : d \in at(l)} = {<<d.path, Reset!RealPath(d.path, links[t])>> : d \in listed}
  BY <1>1 DEF Reset!StillThere, FoundBy, Reset!FoundAt, Reset!FoundIn
<1>3. ASSUME NEW d \in listed PROVE Reset!RealPath(d.path, l) = Reset!RealPath(d.path, links[t])
  <2>1. <<d.path, Reset!RealPath(d.path, l)>> \in {<<e.path, e.real>> : e \in at(l)}
    <3> DEFINE e == [path |-> d.path, kinds |-> d.kinds, real |-> Reset!RealPath(d.path, l)]
    <3>1. e \in at(l) /\ e.path = d.path /\ e.real = Reset!RealPath(d.path, l)
      OBVIOUS
    <3> HIDE DEF e, at
    <3> QED BY <3>1
  <2>2. PICK e \in listed : <<d.path, Reset!RealPath(d.path, l)>> = <<e.path, Reset!RealPath(e.path, links[t])>>
    <3> HIDE DEF at, listed
    <3> QED BY <1>2, <2>1
  <2> QED BY <2>2
<1>4. at(l) = at(links[t])
  BY <1>3
<1> QED BY <1>1, <1>4

(* MembersKept's step: what a host loses, it may lose.                     *)
KeptStep ==
    \A t \in Targets : Reset!Loses(t) =>
        /\ jvm[t] = "down" /\ ~boot[t] /\ Reset!MayGo(t)
        /\ present[t] \ present'[t] \subseteq
             Reset!Below(Reset!Found(t).delete, present[t]) \ Reset!At(t).others

(* A step of the reset, or another of the host's, is one of MembersKept's. *)
LEMMA LossMayGo ==
    ASSUME ResetInv, [Reset!Next]_resetVars, NEW t \in Targets, Reset!Loses(t)
    PROVE  /\ jvm[t] = "down" /\ ~boot[t] /\ Reset!MayGo(t)
           /\ present[t] \ present'[t] \subseteq
                Reset!Below(Reset!Found(t).delete, present[t]) \ Reset!At(t).others
<1>1. ~(present[t] \subseteq present'[t])
  BY DEF Reset!Loses
<1>2. Reset!Empty
  <2>1. ASSUME UNCHANGED resetVars \/ Reset!Plan \/ Reset!Stop \/ Reset!Disable \/ Reset!Unmark \/ Reset!Stopped PROVE FALSE
    BY <1>1, <2>1 DEF resetVars, Reset!Plan, Reset!Stop, Reset!Disable, Reset!Unmark, Reset!Stopped, Reset!hosts
  <2>2. ASSUME Reset!Start PROVE FALSE
    BY <1>1, <2>2 DEF ResetInv, ResetTypes, Reset!Start
  <2>3. ASSUME NEW u \in Targets, Reset!Starts(u) \/ Reset!GoesDown(u) \/ Reset!Joins(u) \/ Reset!Relinked(u) PROVE FALSE
    BY <1>1, <2>3 DEF ResetInv, ResetTypes, Reset!Starts, Reset!GoesDown, Reset!Joins, Reset!Relinked
  <2> QED BY <2>1, <2>2, <2>3 DEF Reset!Next, Reset!Run
<1>3. PICK gone \in [Targets -> UNION {SUBSET plan[u].delete : u \in Targets}] :
        /\ \A u \in Targets : Reset!Resets(u) => jvm[u] = "down" /\ Reset!StillThere(u)
        /\ gone[t] \subseteq plan[t].delete
        /\ present'[t] = present[t] \ Reset!Below(gone[t], present[t])
  BY <1>1, <1>2 DEF Reset!Empty
<1>4. pc = "disabled"
  BY <1>2 DEF Reset!Empty
<1>5. plan[t].delete # {}
  BY <1>1, <1>3 DEF Reset!Below
<1>6. jvm[t] = "down" /\ ~boot[t] /\ Reset!StillThere(t) /\ Fits(t)
  BY <1>3, <1>4, <1>5, DeletesFit
<1>7. PICK l \in LinksOfTarget(t) :
        /\ ~FoundBy(t, l).refused
        /\ plan[t].real = FoundBy(t, l).dirs
        /\ plan[t].delete = FoundBy(t, l).delete
        /\ Fit(t, l, replaced)
  BY <1>6 DEF Fits
<1> DEFINE by == Reset!DirsBy(Reset!At(t), l)
<1>8. by.dirs = Reset!DirsBy(Reset!At(t), links[t]).dirs
  BY <1>5, <1>6, <1>7, SamePlaces
<1>9. /\ ~by.refused
      /\ FoundBy(t, l).delete = Reset!EntriesOf(by.dirs, present[t])
  BY <1>7 DEF FoundBy, Reset!FoundAt, Reset!FoundIn
<1>10. Reset!Found(t).delete = plan[t].delete /\ Reset!Found(t).users = FoundBy(t, l).users
  <2> HIDE DEF by
  <2>1. FoundBy(t, links[t]).delete = FoundBy(t, l).delete /\ FoundBy(t, links[t]).users = FoundBy(t, l).users
    BY <1>8 DEF FoundBy, Reset!FoundAt, Reset!FoundIn, by
  <2> QED BY <1>7, <2>1, FoundNow
<1>11. Reset!MayGo(t)
  <2>1. kind = "cluster" => Reset!Up = {}
    <3>1. ASSUME kind = "cluster", NEW u \in Targets PROVE jvm[u] = "down"
      <4>1. PlanInv(u)
        BY <1>4 DEF ResetInv, Going
      <4>2. plan[u] # Reset!Nothing => Reset!Resets(u)
        BY <3>1 DEF Reset!Resets
      <4> QED BY <1>3, <3>1, <4>1, <4>2 DEF PlanInv
    <3> QED BY <3>1 DEF Reset!Up
  <2>2. inRing[t] \in {"none", "joining", "main", "other"}
    BY DEF ResetInv, ResetTypes
  <2> QED BY <1>7, <1>10, <2>1, <2>2 DEF Fit, Reset!MayGo
<1>12. present[t] \ present'[t] \subseteq Reset!Below(plan[t].delete, present[t])
  BY <1>3 DEF Reset!Below
<1>13. ASSUME NEW f \in Reset!Below(plan[t].delete, present[t]) PROVE f \notin Reset!At(t).others
  <2>1. Reset!TargetOk(Reset!At(t)) /\ l \in Reset!LinksOf(Reset!At(t)) /\ present[t] \in SUBSET Seq(Reset!Names)
    BY ProfileOk DEF ResetInv, ResetTypes, LinksOfTarget
  <2>2. \A d \in by.dirs : d.real \in Seq(Reset!Names)
    BY <2>1, DirsFound
  <2>3. Reset!EntriesOf(by.dirs, Reset!At(t).others) = {}
    BY <1>9, <2>1 DEF Reset!TargetOk
  <2> HIDE DEF by
  <2>4. f \in Reset!Below(Reset!EntriesOf(by.dirs, present[t]), present[t])
    BY <1>7, <1>9
  <2> QED BY <2>1, <2>2, <2>3, <2>4, BelowEntries
<1> QED BY <1>6, <1>10, <1>11, <1>12, <1>13

(* What the proofs rest on holds in every state.                           *)
LEMMA AlwaysResetInv == OneHostSpec => []ResetInv
<1>1. OneHostInit => ResetInv
  BY InitReset DEF OneHostInit, ResetInit
<1>2. ResetInv /\ [Disks \/ Resets]_allVars => ResetInv'
  <2> SUFFICES ASSUME ResetInv, [Disks \/ Resets]_allVars PROVE ResetInv'
    OBVIOUS
  <2>1. CASE Disks \/ UNCHANGED allVars
    <3>1. UNCHANGED resetVars
      BY <2>1 DEF Disks, allVars
    <3>2. \A t \in Targets : PlanInv(t) => PlanInv(t)'
      BY <3>1, PlanInvSame DEF resetVars
    <3>3. \A t \in Targets : StillOther(t) => StillOther(t)'
      BY <3>1, StillOtherKept DEF resetVars
    <3>4. ResetTypes'
      BY <3>1 DEF resetVars, ResetInv, ResetTypes, LinksOfTarget, Reset!At
    <3> QED BY <3>1, <3>2, <3>3, <3>4 DEF resetVars, ResetInv, Going
  <2>2. CASE Resets
    BY <2>2, PlanStep, StopStep, DisableStep, EmptyStep, EndSteps, HostSteps DEF Resets, Reset!Next, Reset!Run
  <2> QED BY <2>1, <2>2
<1> QED BY <1>1, <1>2, PTL DEF OneHostSpec

(* "Never reset a live member" (MembersKept): whatever a run read of the   *)
(* rings, whoever started, stopped or linked a host since, and wherever the *)
(* run or an earlier one was cut short.                                    *)
THEOREM NeverReset == OneHostSpec => MembersKept
<1>1. ResetInv /\ [Disks \/ Resets]_allVars => [KeptStep]_(Reset!vars)
  <2> SUFFICES ASSUME ResetInv, [Disks \/ Resets]_allVars PROVE KeptStep
    OBVIOUS
  <2>1. [Reset!Next]_resetVars
    BY DEF Disks, Resets, allVars
  <2> QED BY <2>1, LossMayGo DEF KeptStep
<1>2. OneHostSpec => [][KeptStep]_(Reset!vars)
  BY <1>1, AlwaysResetInv, PTL DEF OneHostSpec
<1> QED
  BY <1>2, PTL DEF MembersKept, Reset!MembersKept, KeptStep

-----------------------------------------------------------------------------
(* A new node starts with empty directories.                               *)

(* The directories of a target are on the file systems they are on after a *)
(* reboot.                                                                 *)
OnSameMount(t) ==
    \A d \in Reset!At(t).inventory :
        LET real == Reset!RealPath(d[2], links[t])
        IN  Reset!MountOf(real, Reset!At(t).mounted) =
              Reset!MountOf(real, Reset!At(t).mounted \cup Reset!At(t).atBoot)

(* While nobody changes a host: the plan lists all its directories hold,   *)
(* and nothing is left there once it was carried out.                      *)
StartInv ==
    /\ ResetTypes /\ DOMAIN plan = Targets
    /\ pc = "start" => kind \in {"add", "replace"}
    /\ pc # "idle" /\ waited = 0 /\ kind \in {"add", "replace"} =>
         \A t \in Targets : plan[t] # Reset!Nothing =>
             /\ OnSameMount(t)
             /\ kind = "replace" => ~FoundBy(t, links[t]).refused
             /\ FoundBy(t, links[t]).delete = IF Going THEN plan[t].delete ELSE {}

(* A set of naturals has a least.                                          *)
LEMMA LeastOf ==
    ASSUME NEW S, S \subseteq Nat, S # {}
    PROVE  \E i \in S : \A j \in S : i <= j
<1> DEFINE R == OpToRel(<, Nat)
<1>1. IsWellFoundedOn(R, Nat)
  BY NatLessThanWellFounded, Zenon
<1>2. \A x, y \in Nat : x < y => <<x, y>> \in R
  BY DEF OpToRel
<1> HIDE DEF R
<1>3. PICK i \in S : \A j \in S : <<j, i>> \notin R
  BY <1>1, WFMin, Zenon
<1>4. ASSUME NEW j \in S PROVE i <= j
  <2>1. i \in Nat /\ j \in Nat /\ <<j, i>> \notin R
    BY <1>3
  <2>2. ~(j < i)
    BY <1>2, <2>1, Zenon
  <2> QED BY <2>1, <2>2
<1> QED BY <1>4

(* A path is below a mount point as long as any above it.                  *)
LEMMA LongestAbove ==
    ASSUME NEW M \in SUBSET Seq(Reset!Names), NEW path \in Seq(Reset!Names),
           NEW m \in M, Reset!Under(path, m)
    PROVE  \E n \in Reset!MountOf(path, M) : Len(m) <= Len(n)
<1> DEFINE above == {n \in M : Reset!Under(path, n)}
           S == {Len(path) - Len(n) : n \in above}
<1>1. \A n \in above : Len(n) \in Nat /\ Len(path) \in Nat /\ Len(n) <= Len(path)
  BY DEF Reset!Under, Reset!IsPrefix
<1>2. m \in above
  OBVIOUS
<1>3. S \subseteq Nat /\ S # {}
  BY <1>1, <1>2
<1>4. PICK i \in S : \A j \in S : i <= j
  <2> HIDE DEF S
  <2> QED BY <1>3, LeastOf
<1>5. PICK n \in above : i = Len(path) - Len(n)
  OBVIOUS
<1>6. ASSUME NEW o \in above PROVE Len(o) <= Len(n)
  <2>1. Len(path) - Len(o) \in S
    OBVIOUS
  <2>2. Len(path) - Len(n) <= Len(path) - Len(o)
    BY <1>4, <1>5, <2>1
  <2> QED BY <1>1, <2>2
<1> QED BY <1>2, <1>6 DEF Reset!MountOf

(* Two paths above a third, as long as each other, are the same.           *)
LEMMA SameLength ==
    ASSUME NEW path \in Seq(Reset!Names), NEW m \in Seq(Reset!Names), NEW n \in Seq(Reset!Names),
           Reset!Under(path, m), Reset!Under(path, n), Len(m) = Len(n)
    PROVE  m = n
<1>1. SubSeq(m, 1, Len(m)) = SubSeq(n, 1, Len(n))
  BY DEF Reset!Under, Reset!IsPrefix
<1> QED BY <1>1, SubSeqFull

(* No mount point missing, a path is where it is after a reboot.           *)
LEMMA SameMount ==
    ASSUME NEW mounted \in SUBSET Seq(Reset!Names), NEW atBoot \in SUBSET Seq(Reset!Names),
           <<>> \in mounted, NEW path \in Seq(Reset!Names),
           ~ \E w \in Reset!MountOf(path, atBoot \ {<<>>}) :
               \A m \in Reset!MountOf(path, mounted) : Len(w) > Len(m)
    PROVE  Reset!MountOf(path, mounted) = Reset!MountOf(path, mounted \cup atBoot)
<1> DEFINE both == mounted \cup atBoot
<1>1. \A m \in both : m \in Seq(Reset!Names) /\ Len(m) \in Nat
  OBVIOUS
<1>2. PICK n \in Reset!MountOf(path, mounted) : TRUE
  <2>1. Reset!Under(path, <<>>)
    BY DEF Reset!Under, Reset!IsPrefix
  <2> QED BY <2>1, LongestAbove
<1>3. n \in mounted /\ Reset!Under(path, n) /\ \A o \in mounted : Reset!Under(path, o) => Len(o) <= Len(n)
  BY <1>2 DEF Reset!MountOf
<1>4. ASSUME NEW o \in atBoot, Reset!Under(path, o) PROVE Len(o) <= Len(n)
  <2>1. CASE o = <<>>
    <3>1. Len(o) = 0
      BY <2>1
    <3> QED BY <1>1, <1>3, <3>1
  <2>2. CASE o # <<>>
    <3>1. PICK w \in Reset!MountOf(path, atBoot \ {<<>>}) : Len(o) <= Len(w)
      BY <1>4, <2>2, LongestAbove
    <3>2. PICK m \in Reset!MountOf(path, mounted) : ~(Len(w) > Len(m))
      BY <3>1
    <3>3. m \in mounted /\ Reset!Under(path, m) /\ w \in atBoot
      BY <3>1, <3>2 DEF Reset!MountOf
    <3> QED BY <1>1, <1>3, <3>1, <3>2, <3>3
  <2> QED BY <2>1, <2>2
<1>5. \A o \in both : Reset!Under(path, o) => Len(o) <= Len(n)
  BY <1>3, <1>4
<1>6. ASSUME NEW m \in both, Reset!Under(path, m), Len(m) = Len(n) PROVE m = n
  BY <1>1, <1>3, <1>6, SameLength
<1>7. Reset!MountOf(path, mounted) = {n}
  <2>1. \A m \in mounted : Reset!Under(path, m) /\ Len(n) <= Len(m) => m = n
    BY <1>1, <1>3, <1>6
  <2> QED BY <1>2, <1>3, <2>1 DEF Reset!MountOf
<1>8. Reset!MountOf(path, both) = {n}
  <2>1. \A m \in both : Reset!Under(path, m) /\ Len(n) <= Len(m) => m = n
    BY <1>1, <1>3, <1>5, <1>6
  <2> QED BY <1>3, <1>5, <2>1 DEF Reset!MountOf
<1> QED BY <1>7, <1>8

(* Deleted with all they hold, the entries listed leave nothing.           *)
LEMMA EntriesGone ==
    ASSUME NEW dirs, \A d \in dirs : d.real \in Seq(Reset!Names), NEW F \in SUBSET Seq(Reset!Names)
    PROVE  Reset!EntriesOf(dirs, F \ Reset!Below(Reset!EntriesOf(dirs, F), F)) = {}
<1> DEFINE G == F \ Reset!Below(Reset!EntriesOf(dirs, F), F)
<1>1. ASSUME NEW x \in Reset!EntriesOf(dirs, G) PROVE FALSE
  <2>1. PICK d \in dirs, f \in G :
          /\ x = SubSeq(f, 1, Len(d.real) + 1)
          /\ Reset!Under(f, d.real) /\ Len(f) > Len(d.real) /\ f[Len(d.real) + 1] # "lost+found"
    <3> HIDE DEF G
    <3> QED BY <1>1 DEF Reset!EntriesOf
  <2>2. f \in F /\ f \in Seq(Reset!Names) /\ d.real \in Seq(Reset!Names)
    BY <2>1
  <2>3. x \in Reset!EntriesOf(dirs, F)
    <3> HIDE DEF G
    <3> QED BY <2>1, <2>2 DEF Reset!EntriesOf
  <2>4. Len(d.real) \in Nat /\ Len(f) \in Nat
    BY <2>2
  <2>5. x \in Seq(Reset!Names) /\ Len(x) = Len(d.real) + 1
    BY <2>1, <2>2, <2>4
  <2>6. SubSeq(x, 1, Len(x)) = SubSeq(f, 1, Len(x))
    BY <2>1, <2>5, SubSeqFull
  <2>7. Reset!Under(f, x)
    BY <2>1, <2>4, <2>5, <2>6 DEF Reset!Under, Reset!IsPrefix
  <2>8. f \in Reset!Below(Reset!EntriesOf(dirs, F), F)
    BY <2>2, <2>3, <2>7 DEF Reset!Below
  <2> QED BY <2>1, <2>8
<1> QED BY <1>1

(* A directory of the inventory is one of those found, unless it is        *)
(* refused as it is written.                                               *)
LEMMA InventoryFound ==
    ASSUME NEW p, NEW l, NEW d \in p.inventory
    PROVE  \/ Reset!PathRefused(d[2], p.mounted, p.protected) /\ Reset!DirsBy(p, l).refused
           \/ \E e \in Reset!DirsBy(p, l).dirs : e.path = d[2] /\ e.real = Reset!RealPath(d[2], l)
<1> DEFINE yaml == IF p.unread THEN {} ELSE p.yaml
           found == p.inventory \cup UNION {Reset!LiveDirs(y) : y \in yaml}
           kept == {f \in found : ~Reset!PathRefused(f[2], p.mounted, p.protected)}
           listed == Reset!ListedDirs(p.inventory, yaml, p.mounted, p.protected)
<1>1. d \in found
  OBVIOUS
<1>2. CASE Reset!PathRefused(d[2], p.mounted, p.protected)
  <2>1. kept # found
    BY <1>1, <1>2
  <2>2. listed.refused
    <3> HIDE DEF kept
    <3>1. kept = {f \in found : ~Reset!PathRefused(f[2], p.mounted, p.protected)}
      BY DEF kept
    <3> QED BY <2>1, <3>1 DEF Reset!ListedDirs
  <2> QED BY <1>2, <2>2 DEF Reset!DirsBy, Reset!RealDirs
<1>3. CASE ~Reset!PathRefused(d[2], p.mounted, p.protected)
  <2>1. d \in kept
    BY <1>1, <1>3
  <2> DEFINE e == [path |-> d[2], kinds |-> {f[1] : f \in {g \in kept : g[2] = d[2]}}]
  <2>2. e \in listed.dirs
    BY <2>1 DEF Reset!ListedDirs
  <2>3. e.path = d[2]
    OBVIOUS
  <2> HIDE DEF e, listed
  <2>4. [path |-> e.path, kinds |-> e.kinds, real |-> Reset!RealPath(e.path, l)] \in Reset!DirsBy(p, l).dirs
    BY <2>2 DEF Reset!DirsBy, Reset!RealDirs, listed
  <2> QED BY <2>3, <2>4
<1> QED BY <1>2, <1>3

(* Nothing found in its directories, add_node and replace_node find it     *)
(* empty too, but one they do not look at.                                 *)
LEMMA NothingHeld ==
    ASSUME ResetTypes, NEW t \in Targets, FoundBy(t, links[t]).delete = {},
           kind = "replace" => ~FoundBy(t, links[t]).refused, kind \in {"add", "replace"},
           NEW d \in Reset!At(t).inventory
    PROVE  Reset!HeldIn(Reset!View(t), d[2]) = {} \/ Reset!NotLookedAt(t, d[2])
<1> DEFINE by == Reset!DirsBy(Reset!At(t), links[t])
           real == Reset!RealPath(d[2], links[t])
<1>1. Reset!EntriesOf(by.dirs, present[t]) = {} /\ (kind = "replace" => ~by.refused)
  BY DEF FoundBy, Reset!FoundAt, Reset!FoundIn
<1>2. Reset!View(t).files = present[t] /\ Reset!View(t).links = links[t]
  BY ProfileOk DEF Reset!View, Reset!TargetOk
<1>3. CASE Reset!PathRefused(d[2], Reset!At(t).mounted, Reset!At(t).protected) /\ by.refused
  BY <1>1, <1>3 DEF Reset!NotLookedAt
<1>4. CASE \E e \in by.dirs : e.path = d[2] /\ e.real = real
  <2>1. PICK e \in by.dirs : e.real = real
    BY <1>4
  <2> DEFINE one == {[real |-> real]}
  <2>2. ASSUME NEW x \in Reset!EntriesOf(one, present[t]) PROVE FALSE
    <3>1. PICK f \in present[t] :
            /\ x = SubSeq(f, 1, Len(real) + 1)
            /\ Reset!Under(f, real) /\ Len(f) > Len(real) /\ f[Len(real) + 1] # "lost+found"
      BY <2>2 DEF Reset!EntriesOf
    <3> HIDE DEF by, real
    <3>2. x \in Reset!EntriesOf(by.dirs, present[t])
      BY <2>1, <3>1 DEF Reset!EntriesOf
    <3> QED BY <1>1, <3>2
  <2>3. Reset!HeldIn(Reset!View(t), d[2]) = {}
    <3> HIDE DEF one
    <3>1. Reset!EntriesOf(one, present[t]) = {}
      BY <2>2
    <3>2. one = {[real |-> Reset!RealPath(d[2], Reset!View(t).links)]}
      BY <1>2 DEF one
    <3> QED BY <1>2, <3>1, <3>2 DEF Reset!HeldIn
  <2> QED BY <2>3
<1> QED BY <1>3, <1>4, InventoryFound

(* The first checks of add_node and replace_node let no mount be missing.  *)
LEMMA ChecksMounts ==
    ASSUME ResetTypes, NEW t \in Targets, NEW resetStops, ~Reset!NewNodeProblem(Reset!View(t), TRUE, resetStops)
    PROVE  OnSameMount(t)
<1> DEFINE p == Reset!At(t)
<1>1. /\ Reset!View(t).inventory = p.inventory /\ Reset!View(t).links = links[t]
      /\ Reset!View(t).mounted = p.mounted /\ Reset!View(t).atBoot = p.atBoot
  BY ProfileOk DEF Reset!View, Reset!TargetOk
<1>2. ASSUME NEW d \in p.inventory PROVE ~Reset!MountMissing(Reset!View(t), d[2])
  BY <1>1 DEF Reset!NewNodeProblem, Reset!DirsProblem
<1>3. /\ p.mounted \in SUBSET Seq(Reset!Names) /\ p.atBoot \in SUBSET Seq(Reset!Names) /\ <<>> \in p.mounted
  BY ProfileOk DEF Reset!TargetOk
<1>4. ASSUME NEW d \in p.inventory
      PROVE  Reset!MountOf(Reset!RealPath(d[2], links[t]), p.mounted) =
               Reset!MountOf(Reset!RealPath(d[2], links[t]), p.mounted \cup p.atBoot)
  <2>1. d[2] \in Seq(Reset!Names) /\ \A x \in DOMAIN links[t] : x \in Seq(Reset!Names) /\ links[t][x] \in Seq(Reset!Names)
    BY ProfileOk DEF ResetTypes, LinksOfTarget, Reset!TargetOk
  <2>2. Reset!RealPath(d[2], links[t]) \in Seq(Reset!Names)
    BY <2>1, RealPathType
  <2>3. ~ \E w \in Reset!MountOf(Reset!RealPath(d[2], links[t]), p.atBoot \ {<<>>}) :
            \A m \in Reset!MountOf(Reset!RealPath(d[2], links[t]), p.mounted) : Len(w) > Len(m)
    BY <1>1, <1>2, <1>3 DEF Reset!MountMissing
  <2> QED BY <1>3, <2>2, <2>3, SameMount
<1> QED BY <1>4 DEF OnSameMount

(* What a run finds on a target depends on its links and its files.        *)
LEMMA FoundUnchanged ==
    ASSUME NEW t, like' = like, links' = links, present'[t] = present[t]
    PROVE  /\ FoundBy(t, links[t])' = FoundBy(t, links[t])
           /\ OnSameMount(t) => OnSameMount(t)'
BY DEF FoundBy, Reset!FoundAt, Reset!FoundIn, Reset!At, OnSameMount

(* A plan is of hosts the first checks let through.                        *)
LEMMA PlanStarts ==
    ASSUME StartInv, Reset!Plan, NEW t \in Targets, pc' # "idle", kind \in {"add", "replace"},
           plan'[t] # Reset!Nothing
    PROVE  /\ OnSameMount(t)
           /\ kind = "replace" => ~FoundBy(t, links[t]).refused
           /\ pc' = "asked" /\ plan'[t].delete = FoundBy(t, links[t]).delete
<1> DEFINE new(r) == {f \in {Reset!Found(u) : u \in Targets} :
                        f.target \in r.named /\ (kind = "add" => ~Reset!InRing(f.target, Reset!First, r))}
           no(r) == {f.target : f \in {g \in new(r) : Reset!Refused(g.target, g, r)}}
<1>1. PICK r \in Reset!Readings :
        Reset!Answered(r, kind = "cluster" \/ Reset!FirstChecks(Reset!First, r), new(r), no(r))
  BY DEF Reset!Plan
<1> DEFINE N == new(r)
<1>2. /\ pc' = "asked" /\ no(r) = {} /\ Reset!FirstChecks(Reset!First, r)
      /\ plan'[t] = IF \E f \in N : f.target = t
                    THEN Reset!PlanOf(t, CHOOSE f \in N : f.target = t) ELSE Reset!Nothing
  <2> HIDE DEF new, no
  <2> QED BY <1>1 DEF Reset!Answered
<1>3. \A u : Reset!Found(u).target = u
  BY DEF Reset!Found, Reset!FoundAt, Reset!FoundIn
<1>4. \E f \in N : f.target = t
  BY <1>2
<1>5. \A g \in N : g.target = t => g = Reset!Found(t)
  BY <1>3
<1>6. Reset!Found(t) \in N /\ (CHOOSE g \in N : g.target = t) = Reset!Found(t)
  BY <1>4, <1>5
<1>7. /\ t \in r.named /\ (kind = "add" => ~Reset!InRing(t, Reset!First, r))
      /\ ~Reset!Refused(t, Reset!Found(t), r)
  BY <1>2, <1>3, <1>6
<1>8. plan'[t] = Reset!PlanOf(t, Reset!Found(t))
  BY <1>2, <1>4, <1>6
<1> HIDE DEF N, new, no
<1>9. plan'[t].delete = FoundBy(t, links[t]).delete
  BY <1>8, FoundNow DEF Reset!PlanOf
<1>10. kind = "replace" => ~FoundBy(t, links[t]).refused
  BY <1>7, FoundNow DEF Reset!Refused
<1>11. OnSameMount(t)
  <2>1. CASE kind = "add"
    <3>1. ~Reset!NewNodeProblem(Reset!View(t), TRUE, FALSE)
      BY <1>2, <1>7, <2>1 DEF Reset!FirstChecks
    <3> QED BY <3>1, ChecksMounts DEF StartInv
  <2>2. CASE kind = "replace"
    <3>1. ~Reset!NewNodeProblem(Reset!View(t), TRUE, TRUE)
      BY <1>2, <1>7, <2>2 DEF Reset!FirstChecks
    <3> QED BY <3>1, ChecksMounts DEF StartInv
  <2> QED BY <2>1, <2>2
<1> QED BY <1>2, <1>9, <1>10, <1>11

(* A run that goes on has deleted all its plan lists.                      *)
LEMMA EmptyStarts ==
    ASSUME StartInv, Reset!Empty, pc' # "idle"
    PROVE  /\ pc' = "emptied" /\ pc = "disabled"
           /\ \A t \in Targets :
                present'[t] = present[t] \ Reset!Below(plan[t].delete, present[t])
<1>1. PICK gone \in [Targets -> UNION {SUBSET plan[t].delete : t \in Targets}] :
        /\ present' = [t \in Targets |-> present[t] \ Reset!Below(gone[t], present[t])]
        /\ pc' = IF \A t \in Targets : gone[t] = plan[t].delete THEN "emptied" ELSE "idle"
  BY DEF Reset!Empty
<1>2. \A t \in Targets : gone[t] = plan[t].delete
  BY <1>1
<1> QED BY <1>1, <1>2 DEF Reset!Empty

(* Only an emptying and a start change a plan's files, until a change by   *)
(* somebody else.                                                          *)
LEMMA StartStep ==
    ASSUME StartInv, ResetTypes', Reset!Next
    PROVE  StartInv'
<1>1. UNCHANGED <<like, kind>>
  BY DEF Reset!Next, Reset!Run, Reset!Plan, Reset!Stop, Reset!Disable, Reset!Empty, Reset!Unmark, Reset!Start,
         Reset!Stopped, Reset!Starts, Reset!GoesDown, Reset!Joins, Reset!Relinked, Reset!Changes, Reset!fixed
<1> DEFINE Ready(t) == /\ OnSameMount(t)
                       /\ kind = "replace" => ~FoundBy(t, links[t]).refused
                       /\ FoundBy(t, links[t]).delete = IF Going THEN plan[t].delete ELSE {}
<1> DEFINE Goal == /\ DOMAIN plan' = Targets
                   /\ pc' = "start" => kind \in {"add", "replace"}
                   /\ pc' # "idle" /\ waited' = 0 /\ kind \in {"add", "replace"} =>
                        \A t \in Targets : plan'[t] # Reset!Nothing => Ready(t)'
<1> SUFFICES Goal
  BY <1>1 DEF StartInv, Reset!Nothing
<1>2. CASE Reset!Plan
  <2>1. UNCHANGED <<like, links, present>> /\ waited' = 0
    BY <1>2 DEF Reset!Plan, Reset!hosts, Reset!fixed
  <2>2. DOMAIN plan' = Targets /\ pc' # "start"
    BY <1>2 DEF Reset!Plan, Reset!Answered
  <2>3. ASSUME pc' # "idle", kind \in {"add", "replace"}, NEW t \in Targets, plan'[t] # Reset!Nothing
        PROVE  Ready(t)'
    <3>1. /\ OnSameMount(t) /\ (kind = "replace" => ~FoundBy(t, links[t]).refused)
          /\ pc' = "asked" /\ plan'[t].delete = FoundBy(t, links[t]).delete
      BY <1>2, <2>3, PlanStarts
    <3>2. Going'
      BY <3>1 DEF Going
    <3> QED BY <1>1, <2>1, <3>1, <3>2, FoundUnchanged
  <2> HIDE DEF Ready
  <2> QED BY <2>2, <2>3
<1>3. CASE Reset!Stop \/ Reset!Disable
  <2>1. /\ UNCHANGED <<like, links, present, plan, waited>> /\ Going
        /\ pc' # "start" /\ (pc' # "idle" => Going')
    BY <1>3 DEF Reset!Stop, Reset!Disable, Reset!OnEach, Reset!fixed, Going
  <2>2. ASSUME pc' # "idle", waited' = 0, kind \in {"add", "replace"}, NEW t \in Targets, plan'[t] # Reset!Nothing
        PROVE  Ready(t)'
    <3>1. pc # "idle"
      BY <2>1 DEF Going
    <3> QED BY <1>1, <2>1, <2>2, <3>1, FoundUnchanged DEF StartInv
  <2> HIDE DEF Ready
  <2> QED BY <2>1, <2>2 DEF StartInv
<1>4. CASE Reset!Empty
  <2>1. UNCHANGED <<like, links, plan, waited>> /\ pc' # "start"
    BY <1>4 DEF Reset!Empty, Reset!fixed
  <2>2. ASSUME pc' # "idle", waited' = 0, kind \in {"add", "replace"}, NEW t \in Targets, plan'[t] # Reset!Nothing
        PROVE  Ready(t)'
    <3>1. /\ pc' = "emptied" /\ pc = "disabled"
          /\ present'[t] = present[t] \ Reset!Below(plan[t].delete, present[t])
      BY <1>4, <2>2, EmptyStarts
    <3>2. Going /\ ~Going'
      BY <3>1 DEF Going
    <3>3. Ready(t)
      BY <2>1, <2>2, <3>1, <3>2 DEF StartInv
    <3> DEFINE by == Reset!DirsBy(Reset!At(t), links[t])
    <3>4. plan[t].delete = Reset!EntriesOf(by.dirs, present[t])
      BY <3>2, <3>3 DEF FoundBy, Reset!FoundAt, Reset!FoundIn
    <3>5. \A d \in by.dirs : d.real \in Seq(Reset!Names)
      BY ProfileOk, DirsFound DEF StartInv, ResetTypes, LinksOfTarget
    <3>6. present[t] \in SUBSET Seq(Reset!Names)
      BY DEF StartInv, ResetTypes
    <3>7. Reset!EntriesOf(by.dirs, present'[t]) = {}
      <4> HIDE DEF by
      <4> QED BY <3>1, <3>4, <3>5, <3>6, EntriesGone
    <3>8. /\ FoundBy(t, links[t])'.delete = Reset!EntriesOf(by.dirs, present'[t])
          /\ FoundBy(t, links[t])'.refused = FoundBy(t, links[t]).refused
      BY <1>1, <2>1 DEF FoundBy, Reset!FoundAt, Reset!FoundIn, Reset!At
    <3>9. OnSameMount(t)'
      BY <1>1, <2>1, <3>3 DEF OnSameMount, Reset!At
    <3> HIDE DEF by
    <3> QED BY <1>1, <3>2, <3>3, <3>7, <3>8, <3>9
  <2> HIDE DEF Ready
  <2> QED BY <2>1, <2>2 DEF StartInv
<1>5. CASE Reset!Unmark
  <2>1. /\ UNCHANGED <<like, links, present, plan, waited>> /\ pc = "emptied"
        /\ pc' = IF kind \in {"add", "replace"} THEN "start" ELSE "idle"
    BY <1>5 DEF Reset!Unmark, Reset!fixed
  <2>2. ~Going /\ ~Going'
    BY <2>1 DEF Going
  <2>3. ASSUME waited' = 0, kind \in {"add", "replace"}, NEW t \in Targets, plan'[t] # Reset!Nothing
        PROVE  Ready(t)'
    BY <1>1, <2>1, <2>2, <2>3, FoundUnchanged DEF StartInv
  <2> HIDE DEF Ready
  <2> QED BY <2>1, <2>3 DEF StartInv
<1>6. CASE Reset!Start
  <2>1. /\ UNCHANGED <<like, links, pc, waited>> /\ pc = "start"
    BY <1>6 DEF Reset!Start, Reset!fixed
  <2>2. PICK u \in Targets : /\ plan' = [plan EXCEPT ![u] = Reset!Nothing]
                             /\ present' = [present EXCEPT ![u] = @ \cup Reset!FilesOfNew(u)]
    BY <1>6 DEF Reset!Start
  <2>3. DOMAIN plan' = Targets
    BY <2>2 DEF StartInv
  <2>4. ~Going /\ ~Going'
    BY <2>1 DEF Going
  <2>5. ASSUME waited' = 0, kind \in {"add", "replace"}, NEW t \in Targets, plan'[t] # Reset!Nothing
        PROVE  Ready(t)'
    <3>1. t # u /\ plan'[t] = plan[t] /\ present'[t] = present[t]
      BY <2>2, <2>5 DEF StartInv, ResetTypes
    <3>2. Ready(t)
      BY <2>1, <2>5, <3>1 DEF StartInv
    <3> QED BY <1>1, <2>1, <2>4, <3>1, <3>2, FoundUnchanged
  <2> HIDE DEF Ready
  <2> QED BY <2>1, <2>3, <2>5 DEF StartInv
<1>7. CASE Reset!Stopped
  BY <1>7 DEF Reset!Stopped, StartInv
<1>8. ASSUME NEW u \in Targets, Reset!Starts(u) \/ Reset!GoesDown(u) \/ Reset!Joins(u) \/ Reset!Relinked(u)
      PROVE  Goal
  <2>1. UNCHANGED <<pc, plan>> /\ (pc # "idle" => waited' = 1)
    BY <1>8 DEF Reset!Starts, Reset!GoesDown, Reset!Joins, Reset!Relinked, Reset!Changes
  <2> HIDE DEF Ready
  <2> QED BY <2>1 DEF StartInv
<1> HIDE DEF Goal
<1> QED BY <1>2, <1>3, <1>4, <1>5, <1>6, <1>7, <1>8 DEF Reset!Next, Reset!Run

(* A host nobody changed while the run waited starts as a new node with    *)
(* nothing in its directories, each where it is after a reboot             *)
(* (StartsClean): whatever had to be reset there, and however often the run *)
(* or an earlier one was cut short.  Nothing is said of a host changed     *)
(* while the run waited, nor of what a directory holds that add_node       *)
(* refuses as it is written, which it does not look at (NotLookedAt).      *)
THEOREM StartsEmpty == OneHostSpec => StartsClean
<1> DEFINE Clean == pc = "start" /\ waited = 0 => \A t \in Targets :
                      jvm[t] # jvm'[t] /\ jvm'[t] = "unit" /\ plan[t] # Reset!Nothing =>
           \A d \in Reset!At(t).inventory :
               LET real == Reset!RealPath(d[2], links[t]) IN
               /\ Reset!HeldIn(Reset!View(t), d[2]) = {} \/ Reset!NotLookedAt(t, d[2])
               /\ Reset!MountOf(real, Reset!At(t).mounted) =
                    Reset!MountOf(real, Reset!At(t).mounted \cup Reset!At(t).atBoot)
<1>1. OneHostInit => StartInv
  BY InitReset DEF OneHostInit, ResetInit, Reset!Init, ResetInv, StartInv
<1>2. ResetInv' /\ StartInv /\ [Disks \/ Resets]_allVars => StartInv'
  <2> SUFFICES ASSUME ResetInv', StartInv, [Disks \/ Resets]_allVars PROVE StartInv'
    OBVIOUS
  <2>1. CASE Disks \/ UNCHANGED allVars
    <3>1. UNCHANGED resetVars
      BY <2>1 DEF Disks, allVars
    <3> QED BY <3>1, FoundUnchanged DEF resetVars, StartInv, ResetInv, Going, Reset!Nothing
  <2>2. CASE Resets
    BY <2>2, StartStep DEF Resets, ResetInv
  <2> QED BY <2>1, <2>2
<1>3. StartInv => Clean
  <2> SUFFICES ASSUME StartInv, pc = "start", waited = 0, NEW t \in Targets, plan[t] # Reset!Nothing,
                      NEW d \in Reset!At(t).inventory
               PROVE  LET real == Reset!RealPath(d[2], links[t]) IN
                      /\ Reset!HeldIn(Reset!View(t), d[2]) = {} \/ Reset!NotLookedAt(t, d[2])
                      /\ Reset!MountOf(real, Reset!At(t).mounted) =
                           Reset!MountOf(real, Reset!At(t).mounted \cup Reset!At(t).atBoot)
    OBVIOUS
  <2>1. /\ kind \in {"add", "replace"} /\ OnSameMount(t)
        /\ kind = "replace" => ~FoundBy(t, links[t]).refused
        /\ FoundBy(t, links[t]).delete = {}
    BY DEF StartInv, Going
  <2>2. Reset!HeldIn(Reset!View(t), d[2]) = {} \/ Reset!NotLookedAt(t, d[2])
    BY <2>1, NothingHeld DEF StartInv
  <2> QED BY <2>1, <2>2 DEF OnSameMount
<1>4. OneHostSpec => []StartInv
  BY <1>1, <1>2, AlwaysResetInv, PTL DEF OneHostSpec
<1>5. OneHostSpec => [][Clean]_(Reset!vars)
  <2> HIDE DEF Clean
  <2> QED BY <1>3, <1>4, PTL
<1> QED BY <1>5, PTL DEF StartsClean, Reset!StartsClean, Clean

-----------------------------------------------------------------------------
(***************************************************************************)
(* The disks.  A recursion over numbers has a function; what the model's   *)
(* recursive functions return; the plan of a host, then the runs.          *)
(***************************************************************************)
(* What holds of 0, and of each number whose predecessor it holds of.      *)
LEMMA StepInduction ==
    ASSUME NEW N \in Nat, NEW P, 0 \in P, \A i \in 1 .. N : i - 1 \in P => i \in P
    PROVE  0 .. N \subseteq P
<1> DEFINE R == OpToRel(<, Nat)
           Left == {i \in 0 .. N : i \notin P}
<1>1. IsWellFoundedOn(R, Nat)
  BY NatLessThanWellFounded, Zenon
<1>2. \A x, y \in Nat : x < y => <<x, y>> \in R
  BY DEF OpToRel
<1>3. SUFFICES ASSUME Left # {} PROVE FALSE
  OBVIOUS
<1>4. Left \subseteq Nat
  OBVIOUS
<1> HIDE DEF R, Left
<1>5. PICK i \in Left : \A j \in Left : <<j, i>> \notin R
  BY <1>1, <1>3, <1>4, WFMin, Zenon
<1> USE DEF Left
<1>6. i # 0 /\ i - 1 \in Nat /\ i - 1 < i /\ i \in 1 .. N /\ i - 1 \in 0 .. N
  BY <1>5
<1>7. <<i - 1, i>> \in R
  BY <1>2, <1>5, <1>6
<1>8. i - 1 \in P
  BY <1>5, <1>6, <1>7
<1> QED BY <1>5, <1>6, <1>8

StepsIn(next, N, V) == \A i \in 1 .. N, v \in V : next[<<i, v>>] \in V

BySteps(f, first, next, N) == f[0] = first /\ \A i \in 1 .. N : f[i] = next[<<i, f[i - 1]>>]

(* A function by recursion over numbers: the n-th of its values from the one *)
(* before.                                                                 *)
LEMMA Recursion ==
    ASSUME NEW N \in Nat, NEW V, NEW first \in V, NEW next, StepsIn(next, N, V)
    PROVE  \E f \in [0 .. N -> V] : BySteps(f, first, next, N)
<1> DEFINE So(f, n) == f[0] = first /\ \A i \in 1 .. n : f[i] = next[<<i, f[i - 1]>>]
           P == {n \in 0 .. N : \E f \in [0 .. n -> V] : So(f, n)}
<1>1. 0 \in P
  <2>1. [i \in 0 .. 0 |-> first] \in [0 .. 0 -> V] /\ So([i \in 0 .. 0 |-> first], 0)
    OBVIOUS
  <2> HIDE DEF So
  <2> QED BY <2>1
<1>2. ASSUME NEW n \in 1 .. N, n - 1 \in P PROVE n \in P
  <2>1. PICK f \in [0 .. n - 1 -> V] : So(f, n - 1)
    BY <1>2
  <2>2. f[n - 1] \in V /\ <<n, f[n - 1]>> \in (1 .. N) \X V
    OBVIOUS
  <2> DEFINE new == next[<<n, f[n - 1]>>]
             g == [i \in 0 .. n |-> IF i = n THEN new ELSE f[i]]
  <2>3. new \in V
    BY <2>2 DEF StepsIn
  <2> HIDE DEF new
  <2>4. g \in [0 .. n -> V]
    BY <2>3
  <2>5. ASSUME NEW i \in 1 .. n PROVE g[i] = next[<<i, g[i - 1]>>]
    <3>1. i - 1 \in 0 .. n /\ i - 1 # n /\ g[i - 1] = f[i - 1]
      OBVIOUS
    <3>2. CASE i = n
      <4>1. g[n] = new
        OBVIOUS
      <4> HIDE DEF g
      <4> QED BY <3>1, <3>2, <4>1 DEF new
    <3>3. CASE i # n
      <4>1. g[i] = f[i] /\ i \in 1 .. n - 1
        BY <3>3
      <4> HIDE DEF g
      <4> QED BY <2>1, <3>1, <4>1
    <3> QED BY <3>2, <3>3
  <2>6. g[0] = first
    BY <2>1
  <2>7. So(g, n)
    <3> HIDE DEF g
    <3> QED BY <2>5, <2>6
  <2> HIDE DEF So, g
  <2> QED BY <2>4, <2>7
<1>3. N \in P
  <2> HIDE DEF P
  <2>1. 0 .. N \subseteq P
    BY <1>1, <1>2, StepInduction
  <2> QED BY <2>1
<1> QED BY <1>3 DEF BySteps

AddsEach(out, items, places) ==
    LET add[i \in 0 .. Len(items)] ==
            IF i = 0 THEN out
            ELSE IF i \notin places \/ Contains(add[i - 1], items[i]) THEN add[i - 1]
            ELSE Append(add[i - 1], items[i])
    IN  add

(* Items added to a sequence leave what it begins with.                    *)
LEMMA AddEachType ==
    ASSUME NEW D, NEW out \in Seq(D), NEW items, Len(items) \in Nat, NEW places,
           \A i \in places : i \in 1 .. Len(items) => items[i] \in D
    PROVE  /\ AddEach(out, items, places) \in Seq(D)
           /\ Len(out) <= Len(AddEach(out, items, places))
           /\ \A i \in 1 .. Len(out) : AddEach(out, items, places)[i] = out[i]
<1> DEFINE N == Len(items)
           one(i, so) == IF i \notin places \/ Contains(so, items[i]) THEN so ELSE Append(so, items[i])
           So(f) == f = [i \in 0 .. N |-> IF i = 0 THEN out
                           ELSE IF i \notin places \/ Contains(f[i - 1], items[i]) THEN f[i - 1]
                           ELSE Append(f[i - 1], items[i])]
<1>a. N \in Nat
  OBVIOUS
<1> HIDE DEF N
<1> DEFINE next == [p \in (1 .. N) \X Seq(D) |-> one(p[1], p[2])]
<1>1. ASSUME NEW i \in 1 .. N, NEW so \in Seq(D) PROVE one(i, so) \in Seq(D)
  BY <1>1 DEF N
<1> HIDE DEF one
<1>2. next \in [(1 .. N) \X Seq(D) -> Seq(D)] /\ \A i \in 1 .. N, so \in Seq(D) : next[<<i, so>>] = one(i, so)
  BY <1>1
<1> HIDE DEF next
<1>3. PICK f \in [0 .. N -> Seq(D)] : f[0] = out /\ \A i \in 1 .. N : f[i] = next[<<i, f[i - 1]>>]
  <2>1. StepsIn(next, N, Seq(D))
    BY <1>2 DEF StepsIn
  <2>2. \E f \in [0 .. N -> Seq(D)] : BySteps(f, out, next, N)
    BY <1>a, <2>1, Recursion
  <2> QED BY <2>2 DEF BySteps
<1>4. \A i \in 1 .. N : f[i] = one(i, f[i - 1])
  <2> SUFFICES ASSUME NEW i \in 1 .. N PROVE f[i] = one(i, f[i - 1])
    OBVIOUS
  <2>1. i - 1 \in 0 .. N /\ f[i - 1] \in Seq(D)
    BY <1>a
  <2> QED BY <1>2, <1>3, <2>1
<1>5. So(f)
  <2>1. ASSUME NEW i \in 0 .. N
        PROVE  f[i] = IF i = 0 THEN out
                      ELSE IF i \notin places \/ Contains(f[i - 1], items[i]) THEN f[i - 1]
                      ELSE Append(f[i - 1], items[i])
    <3>1. CASE i = 0
      BY <1>3, <3>1
    <3>2. CASE i # 0
      <4>1. i \in 1 .. N
        BY <1>a, <3>2
      <4> QED BY <1>4, <3>2, <4>1 DEF one
    <3> QED BY <3>1, <3>2
  <2> QED BY <2>1
<1> DEFINE add == AddsEach(out, items, places)
<1>6. So(add)
  <2>1. add = CHOOSE h : So(h)
    BY DEF AddsEach, N
  <2> HIDE DEF add, So
  <2> QED BY <1>5, <2>1, Zenon
<1>7. AddEach(out, items, places) = add[N]
  BY DEF AddEach, AddsEach, N
<1> HIDE DEF add
<1>8. add[0] = out /\ \A i \in 1 .. N : i \in 0 .. N /\ add[i] = one(i, add[i - 1])
  <2>1. 0 \in 0 .. N /\ \A i \in 1 .. N : i \in 0 .. N /\ i # 0
    BY <1>a
  <2> QED BY <1>6, <2>1 DEF one
<1> HIDE DEF So
<1> DEFINE P == {i \in 0 .. N : /\ add[i] \in Seq(D) /\ Len(out) <= Len(add[i])
                                /\ \A j \in 1 .. Len(out) : add[i][j] = out[j]}
<1>9. 0 \in P
  BY <1>a, <1>8
<1>10. ASSUME NEW i \in 1 .. N, i - 1 \in P PROVE i \in P
  <2> DEFINE so == add[i - 1]
  <2>1. add[i] = one(i, so) /\ so \in Seq(D) /\ Len(out) <= Len(so)
        /\ \A j \in 1 .. Len(out) : so[j] = out[j]
    BY <1>8, <1>10
  <2> HIDE DEF so
  <2>2. CASE i \notin places \/ Contains(so, items[i])
    BY <2>1, <2>2 DEF one
  <2>3. CASE ~(i \notin places \/ Contains(so, items[i]))
    <3>1. add[i] = Append(so, items[i]) /\ items[i] \in D
      BY <2>1, <2>3 DEF one, N
    <3>2. /\ Append(so, items[i]) \in Seq(D) /\ Len(Append(so, items[i])) = Len(so) + 1
          /\ \A j \in 1 .. Len(so) : Append(so, items[i])[j] = so[j]
      BY <2>1, <3>1
    <3>3. \A j \in 1 .. Len(out) : j \in 1 .. Len(so)
      BY <2>1
    <3>4. Len(out) \in Nat /\ Len(so) \in Nat
      BY <2>1
    <3>5. add[i] \in Seq(D) /\ Len(out) <= Len(add[i])
      BY <2>1, <3>1, <3>2, <3>4
    <3>6. \A j \in 1 .. Len(out) : add[i][j] = out[j]
      BY <2>1, <3>1, <3>2, <3>3
    <3>7. i \in 0 .. N
      BY <1>a
    <3> QED BY <3>5, <3>6, <3>7
  <2> QED BY <2>2, <2>3
<1>11. N \in P
  <2> HIDE DEF P
  <2>1. 0 .. N \subseteq P
    BY <1>a, <1>9, <1>10, StepInduction
  <2> QED BY <1>a, <2>1
<1> QED BY <1>7, <1>11

(* What lsblk lists: finitely many devices, each on devices of the list.   *)
Listed(h) ==
    /\ IsFiniteSet(DOMAIN h.dev)
    /\ \A k \in DOMAIN h.dev : h.dev[k].parents \in Seq(DOMAIN h.dev)

WalksTo(h, k, walk, i) ==
    IF i = 0 THEN <<k>>
    ELSE IF i > Len(walk[i - 1]) THEN walk[i - 1]
    ELSE LET parents == h.dev[walk[i - 1][i]].parents
         IN  AddEach(walk[i - 1], parents, DOMAIN parents)

Walks(h, k) ==
    LET walk[i \in 0 .. Cardinality(DOMAIN h.dev)] ==
            IF i = 0 THEN <<k>>
            ELSE IF i > Len(walk[i - 1]) THEN walk[i - 1]
            ELSE LET parents == h.dev[walk[i - 1][i]].parents
                 IN  AddEach(walk[i - 1], parents, DOMAIN parents)
    IN  walk

WalkFrom(h, k, s) == s \in Seq(DOMAIN h.dev) /\ Len(s) >= 1 /\ s[1] = k

(* A device's walk begins with it and goes through the devices of the list. *)
LEMMA WalkType ==
    ASSUME NEW h, Listed(h), NEW k \in DOMAIN h.dev
    PROVE  WalkFrom(h, k, Walk(h, k))
<1> DEFINE N == Cardinality(DOMAIN h.dev)
           D == DOMAIN h.dev
           one(i, so) == IF i > Len(so) THEN so
                         ELSE AddEach(so, h.dev[so[i]].parents, DOMAIN h.dev[so[i]].parents)
           V == {s \in Seq(D) : WalkFrom(h, k, s)}
           So(f) == f = [i \in 0 .. N |-> WalksTo(h, k, f, i)]
<1>a. N \in Nat
  BY FS_CardinalityType DEF Listed
<1>1. ASSUME NEW i \in 1 .. N, NEW so \in V PROVE one(i, so) \in V
  <2>1. CASE i > Len(so)
    BY <2>1
  <2>2. CASE ~(i > Len(so))
    <3> DEFINE parents == h.dev[so[i]].parents
               places == DOMAIN parents
    <3>1. so \in Seq(D) /\ Len(so) \in Nat /\ 1 <= Len(so) /\ so[1] = k
      BY DEF WalkFrom
    <3>2. i \in 1 .. Len(so)
      BY <1>a, <2>2, <3>1
    <3>3. so[i] \in D
      BY <3>1, <3>2
    <3>4. parents \in Seq(D)
      BY <3>3 DEF Listed
    <3>5. Len(parents) \in Nat /\ \A j \in places : j \in 1 .. Len(parents) => parents[j] \in D
      BY <3>4
    <3>6. one(i, so) = AddEach(so, parents, places)
      BY <2>2
    <3> HIDE DEF parents, places, one, D
    <3>7. /\ AddEach(so, parents, places) \in Seq(D)
          /\ Len(so) <= Len(AddEach(so, parents, places))
          /\ \A j \in 1 .. Len(so) : AddEach(so, parents, places)[j] = so[j]
      BY <3>1, <3>5, AddEachType
    <3>8. 1 \in 1 .. Len(so) /\ Len(AddEach(so, parents, places)) \in Nat
      BY <3>1, <3>7
    <3>9. AddEach(so, parents, places)[1] = k /\ Len(AddEach(so, parents, places)) >= 1
      BY <3>1, <3>7, <3>8
    <3> QED BY <3>6, <3>7, <3>9 DEF WalkFrom, D
  <2> QED BY <2>1, <2>2
<1>2. <<k>> \in V
  <2>1. Append(<<>>, k) = <<k>>
    OBVIOUS
  <2>2. <<>> \in Seq(D) /\ Len(<<>>) = 0 /\ k \in D
    OBVIOUS
  <2> HIDE DEF D
  <2>3. Append(<<>>, k) \in Seq(D) /\ Len(Append(<<>>, k)) = 1 /\ Append(<<>>, k)[1] = k
    BY <2>2
  <2> QED BY <2>1, <2>3 DEF WalkFrom, D
<1> HIDE DEF N, one, V
<1> DEFINE next == [p \in (1 .. N) \X V |-> one(p[1], p[2])]
<1>3. StepsIn(next, N, V) /\ \A i \in 1 .. N, so \in V : next[<<i, so>>] = one(i, so)
  BY <1>1 DEF StepsIn
<1> HIDE DEF next
<1>4. \E f \in [0 .. N -> V] : BySteps(f, <<k>>, next, N)
  BY <1>a, <1>2, <1>3, Recursion
<1>5. PICK f \in [0 .. N -> V] : f[0] = <<k>> /\ \A i \in 1 .. N : f[i] = next[<<i, f[i - 1]>>]
  BY <1>4 DEF BySteps
<1>6. ASSUME NEW i \in 0 .. N PROVE f[i] = WalksTo(h, k, f, i)
  <2>1. CASE i = 0
    BY <1>5, <2>1 DEF WalksTo
  <2>2. CASE i # 0
    <3>1. i \in 1 .. N /\ i - 1 \in 0 .. N /\ f[i - 1] \in V
      BY <1>a, <2>2
    <3>2. f[i] = one(i, f[i - 1])
      BY <1>3, <1>5, <3>1
    <3> QED BY <2>2, <3>2 DEF WalksTo, one
  <2> QED BY <2>1, <2>2
<1>7. So(f)
  BY <1>6
<1> DEFINE walk == Walks(h, k)
<1>8. So(walk)
  <2>1. walk = CHOOSE g : So(g)
    BY DEF Walks, WalksTo, N
  <2> HIDE DEF walk, So
  <2> QED BY <1>7, <2>1, Zenon
<1>9. Walk(h, k) = walk[N]
  BY DEF Walk, Walks, N
<1> HIDE DEF walk
<1>10. walk[0] = <<k>> /\ \A i \in 1 .. N : walk[i] = one(i, walk[i - 1])
  <2>1. 0 \in 0 .. N /\ \A i \in 1 .. N : i \in 0 .. N /\ i # 0
    BY <1>a
  <2>2. \A i \in 0 .. N : walk[i] = WalksTo(h, k, walk, i)
    BY <1>8
  <2> QED BY <2>1, <2>2 DEF WalksTo, one
<1> HIDE DEF So
<1> DEFINE P == {i \in 0 .. N : walk[i] \in V}
<1>11. 0 \in P
  BY <1>a, <1>2, <1>10
<1>12. ASSUME NEW i \in 1 .. N, i - 1 \in P PROVE i \in P
  BY <1>a, <1>1, <1>10, <1>12
<1>13. N \in P
  <2> HIDE DEF P
  <2>1. 0 .. N \subseteq P
    BY <1>a, <1>11, <1>12, StepInduction
  <2> QED BY <1>a, <2>1
<1> QED BY <1>9, <1>13 DEF V

(* What a plan may list: what is tuned of the device x for the top k.      *)
Entries(h) == {Entry(h, k, x) : k \in DOMAIN h.dev, x \in DOMAIN h.dev}

(* A host whose devices are looked up: walks, disks and tops of its list.  *)
LookedUp(h) ==
    /\ \A k \in DOMAIN h.dev : h.walk[k] \in Seq(DOMAIN h.dev) /\ h.disk[k] \in DOMAIN h.dev
    /\ h.tops \in Seq(DOMAIN h.dev)

(* An entry more is one of the top's.                                       *)
LEMMA AddEntryType ==
    ASSUME NEW h, NEW found \in Seq(Entries(h)), NEW k \in DOMAIN h.dev, NEW x \in DOMAIN h.dev
    PROVE  AddEntry(h, found, k, x) \in Seq(Entries(h))
<1>1. Entry(h, k, x) \in Entries(h)
  BY DEF Entries
<1> QED BY <1>1 DEF AddEntry

StacksTo(h, found, k, add, i) ==
    IF i = 0 THEN AddEntry(h, found, k, h.disk[k])
    ELSE IF TunedFor(h, k, h.walk[k][i]) THEN AddEntry(h, add[i - 1], k, h.walk[k][i])
    ELSE add[i - 1]

StackAdds(h, found, k) ==
    LET walk == h.walk[k]
        add[i \in 0 .. Len(walk)] ==
            IF i = 0 THEN AddEntry(h, found, k, h.disk[k])
            ELSE IF TunedFor(h, k, walk[i]) THEN AddEntry(h, add[i - 1], k, walk[i])
            ELSE add[i - 1]
    IN  add

(* The stack of a top adds entries for it alone.                           *)
LEMMA AddStackType ==
    ASSUME NEW h, LookedUp(h), NEW found \in Seq(Entries(h)), NEW k \in DOMAIN h.dev
    PROVE  AddStack(h, found, k) \in Seq(Entries(h))
<1> DEFINE walk == h.walk[k]
           N == Len(walk)
           V == Seq(Entries(h))
           first == AddEntry(h, found, k, h.disk[k])
           one(i, so) == IF TunedFor(h, k, walk[i]) THEN AddEntry(h, so, k, walk[i]) ELSE so
           So(f) == f = [i \in 0 .. N |-> StacksTo(h, found, k, f, i)]
<1>a. N \in Nat /\ \A i \in 1 .. N : walk[i] \in DOMAIN h.dev
  <2>1. walk \in Seq(DOMAIN h.dev)
    BY DEF LookedUp
  <2> HIDE DEF walk
  <2> QED BY <2>1
<1>1. ASSUME NEW i \in 1 .. N, NEW so \in V PROVE one(i, so) \in V
  <2>1. walk[i] \in DOMAIN h.dev
    BY <1>a
  <2> HIDE DEF walk, N
  <2> QED BY <2>1, AddEntryType
<1>2. first \in V
  <2>1. h.disk[k] \in DOMAIN h.dev
    BY DEF LookedUp
  <2> QED BY <2>1, AddEntryType
<1> HIDE DEF N, one, V, first
<1> DEFINE next == [p \in (1 .. N) \X V |-> one(p[1], p[2])]
<1>3. StepsIn(next, N, V) /\ \A i \in 1 .. N, so \in V : next[<<i, so>>] = one(i, so)
  BY <1>1 DEF StepsIn
<1> HIDE DEF next
<1>4. \E f \in [0 .. N -> V] : BySteps(f, first, next, N)
  BY <1>a, <1>2, <1>3, Recursion
<1>5. PICK f \in [0 .. N -> V] : f[0] = first /\ \A i \in 1 .. N : f[i] = next[<<i, f[i - 1]>>]
  BY <1>4 DEF BySteps
<1>6. ASSUME NEW i \in 0 .. N PROVE f[i] = StacksTo(h, found, k, f, i)
  <2>1. CASE i = 0
    BY <1>5, <2>1 DEF StacksTo, first
  <2>2. CASE i # 0
    <3>1. i \in 1 .. N /\ i - 1 \in 0 .. N /\ f[i - 1] \in V
      BY <1>a, <2>2
    <3>2. f[i] = one(i, f[i - 1])
      BY <1>3, <1>5, <3>1
    <3> QED BY <2>2, <3>2 DEF StacksTo, one
  <2> QED BY <2>1, <2>2
<1>7. So(f)
  BY <1>6
<1> DEFINE add == StackAdds(h, found, k)
<1>8. So(add)
  <2>1. add = CHOOSE g : So(g)
    BY DEF StackAdds, StacksTo, N
  <2> HIDE DEF add, So
  <2> QED BY <1>7, <2>1, Zenon
<1>9. AddStack(h, found, k) = IF LeftAlone(h, k) THEN found ELSE add[N]
  BY DEF AddStack, StackAdds, N
<1> HIDE DEF add
<1>10. add[0] = first /\ \A i \in 1 .. N : add[i] = one(i, add[i - 1])
  <2>1. 0 \in 0 .. N /\ \A i \in 1 .. N : i \in 0 .. N /\ i # 0
    BY <1>a
  <2>2. \A i \in 0 .. N : add[i] = StacksTo(h, found, k, add, i)
    BY <1>8
  <2> QED BY <2>1, <2>2 DEF StacksTo, one, first
<1> HIDE DEF So
<1> DEFINE P == {i \in 0 .. N : add[i] \in V}
<1>11. 0 \in P
  BY <1>a, <1>2, <1>10
<1>12. ASSUME NEW i \in 1 .. N, i - 1 \in P PROVE i \in P
  BY <1>a, <1>1, <1>10, <1>12
<1>13. N \in P
  <2> HIDE DEF P
  <2>1. 0 .. N \subseteq P
    BY <1>a, <1>11, <1>12, StepInduction
  <2> QED BY <1>a, <2>1
<1> QED BY <1>9, <1>13 DEF V

TopsTo(h, found, alone, add, i) ==
    IF i = 0 THEN found
    ELSE IF (h.tops[i] \in h.alone) = alone THEN AddStack(h, add[i - 1], h.tops[i])
    ELSE add[i - 1]

TopsAdd(h, found, alone) ==
    LET add[i \in 0 .. Len(h.tops)] ==
            IF i = 0 THEN found
            ELSE IF (h.tops[i] \in h.alone) = alone THEN AddStack(h, add[i - 1], h.tops[i])
            ELSE add[i - 1]
    IN  add

(* So do the stacks of the tops, whichever are added.                      *)
LEMMA AddStacksType ==
    ASSUME NEW h, LookedUp(h), NEW found \in Seq(Entries(h)), NEW alone
    PROVE  AddStacks(h, found, alone) \in Seq(Entries(h))
<1> DEFINE N == Len(h.tops)
           V == Seq(Entries(h))
           one(i, so) == IF (h.tops[i] \in h.alone) = alone THEN AddStack(h, so, h.tops[i]) ELSE so
           So(f) == f = [i \in 0 .. N |-> TopsTo(h, found, alone, f, i)]
<1>a. N \in Nat /\ \A i \in 1 .. N : h.tops[i] \in DOMAIN h.dev
  <2> HIDE DEF V, one, So
  <2>1. h.tops \in Seq(DOMAIN h.dev)
    BY DEF LookedUp
  <2>2. N \in Nat
    BY <2>1
  <2>3. ASSUME NEW i \in 1 .. N PROVE h.tops[i] \in DOMAIN h.dev
    BY <2>1, <2>3
  <2> QED BY <2>2, <2>3
<1>1. ASSUME NEW i \in 1 .. N, NEW so \in V PROVE one(i, so) \in V
  <2>1. h.tops[i] \in DOMAIN h.dev
    BY <1>a
  <2>2. AddStack(h, so, h.tops[i]) \in V
    BY <2>1, AddStackType
  <2> QED BY <2>2
<1>2. found \in V
  OBVIOUS
<1> HIDE DEF N, one, V
<1> DEFINE next == [p \in (1 .. N) \X V |-> one(p[1], p[2])]
<1>3. StepsIn(next, N, V) /\ \A i \in 1 .. N, so \in V : next[<<i, so>>] = one(i, so)
  BY <1>1 DEF StepsIn
<1> HIDE DEF next
<1>4. \E f \in [0 .. N -> V] : BySteps(f, found, next, N)
  BY <1>a, <1>2, <1>3, Recursion
<1>5. PICK f \in [0 .. N -> V] : f[0] = found /\ \A i \in 1 .. N : f[i] = next[<<i, f[i - 1]>>]
  BY <1>4 DEF BySteps
<1>6. ASSUME NEW i \in 0 .. N PROVE f[i] = TopsTo(h, found, alone, f, i)
  <2>1. CASE i = 0
    BY <1>5, <2>1 DEF TopsTo
  <2>2. CASE i # 0
    <3>1. i \in 1 .. N /\ i - 1 \in 0 .. N /\ f[i - 1] \in V
      BY <1>a, <2>2
    <3>2. f[i] = one(i, f[i - 1])
      BY <1>3, <1>5, <3>1
    <3> QED BY <2>2, <3>2 DEF TopsTo, one
  <2> QED BY <2>1, <2>2
<1>7. So(f)
  BY <1>6
<1> DEFINE add == TopsAdd(h, found, alone)
<1>8. So(add)
  <2>1. add = CHOOSE g : So(g)
    BY DEF TopsAdd, TopsTo, N
  <2> HIDE DEF add, So
  <2> QED BY <1>7, <2>1, Zenon
<1>9. AddStacks(h, found, alone) = add[N]
  BY DEF AddStacks, TopsAdd, N
<1> HIDE DEF add
<1>10. add[0] = found /\ \A i \in 1 .. N : add[i] = one(i, add[i - 1])
  <2>1. 0 \in 0 .. N /\ \A i \in 1 .. N : i \in 0 .. N /\ i # 0
    BY <1>a
  <2>2. \A i \in 0 .. N : add[i] = TopsTo(h, found, alone, add, i)
    BY <1>8
  <2> QED BY <2>1, <2>2 DEF TopsTo, one
<1> HIDE DEF So
<1> DEFINE P == {i \in 0 .. N : add[i] \in V}
<1>11. 0 \in P
  BY <1>a, <1>2, <1>10
<1>12. ASSUME NEW i \in 1 .. N, i - 1 \in P PROVE i \in P
  BY <1>a, <1>1, <1>10, <1>12
<1>13. N \in P
  <2> HIDE DEF P
  <2>1. 0 .. N \subseteq P
    BY <1>a, <1>11, <1>12, StepInduction
  <2> QED BY <1>a, <2>1
<1> QED BY <1>9, <1>13 DEF V

(* A plan lists nothing else.                                              *)
LEMMA PlanType ==
    ASSUME NEW h, LookedUp(h)
    PROVE  Plan(h) \in Seq(Entries(h))
<1> DEFINE data == AddStacks(h, <<>>, FALSE)
<1>1. <<>> \in Seq(Entries(h))
  OBVIOUS
<1>2. data \in Seq(Entries(h))
  BY <1>1, AddStacksType
<1> HIDE DEF data
<1>3. AddStacks(h, data, TRUE) \in Seq(Entries(h))
  BY <1>2, AddStacksType
<1> QED BY <1>3 DEF Plan, data

(* A device the plan lists free of the OS holds none of its filesystems,   *)
(* though it passes over those of Cassandra's devices and of the top itself: *)
(* these hold none.                                                        *)
LEMMA FreeOfOs ==
    ASSUME NEW h, \A u \in DOMAIN h.dev : Contains(h.walk[u], u),
           \A u \in h.ours : OsUses(h, u, {}) = {},
           NEW k, NEW x, ~Entry(h, k, x).os
    PROVE  OsUses(h, x, {}) = {}
<1>1. OsOn(h, k) = {} /\ (x = h.disk[k] \/ OsUses(h, x, h.ours \cup {k}) = {})
  BY DEF Entry
<1>2. OsUses(h, k, {}) = {}
  BY <1>1 DEF OsOn
<1>3. SUFFICES ASSUME OsUses(h, x, h.ours \cup {k}) = {} PROVE OsUses(h, x, {}) = {}
  <2>1. CASE x = h.disk[k]
    <3>1. CASE h.disk[k] = k
      BY <1>2, <2>1, <3>1
    <3>2. CASE h.disk[k] # k
      <4>1. OsUses(h, x, h.ours) = {}
        BY <1>1, <2>1, <3>2 DEF OsOn
      <4>2. OsUses(h, x, h.ours \cup {k}) = {}
        BY <4>1 DEF OsUses, OtherUses
      <4> QED BY <1>3, <4>2
    <3> QED BY <3>1, <3>2
  <2> QED BY <1>1, <1>3, <2>1
<1>4. ASSUME NEW m \in OsUses(h, x, {}) PROVE FALSE
  <2>1. PICK u \in Uppermost(h, x) :
            /\ h.dev[u].mount # "" \/ h.dev[u].fs
            /\ m = IF h.dev[u].mount # "" THEN h.dev[u].mount ELSE "unmounted " \o u
    BY <1>4 DEF OsUses, OtherUses
  <2>2. u \in h.ours \cup {k}
    BY <1>3, <1>4, <2>1 DEF OsUses, OtherUses
  <2>3. u \in Uppermost(h, u)
    BY <2>1 DEF Uppermost
  <2>4. m \in OsUses(h, u, {})
    BY <1>4, <2>1, <2>3 DEF OsUses, OtherUses
  <2> QED BY <1>2, <2>2, <2>4
<1> QED BY <1>4

Fields == {"dev", "lvs", "dirs", "byHand", "tuneOs", "ided", "ssd", "queued", "page", "live"}

(* A host as the lookups find it.                                          *)
Given(h) ==
    /\ DOMAIN h = Fields
    /\ Listed(h)
    /\ h.byHand \in Seq(DOMAIN h.dev)
    /\ h.dirs \in Seq(ToSet(h.dirs))
    /\ \A i \in DOMAIN h.dirs : OnBlock(h.dirs[i]) => h.dirs[i].at \in DOMAIN h.dev

(* What a host keeps, once more is known of it.                            *)
LEMMA WithDomain == \A h, more : DOMAIN With(h, more) = DOMAIN h \cup DOMAIN more
BY DEF With

(* Its fields of before are as they were.                                  *)
LEMMA WithOld == \A h, more : \A f \in DOMAIN h : With(h, more)[f] = h[f]
BY DEF With

(* The others are those added.                                             *)
LEMMA WithMore == \A h, more : \A f \in DOMAIN more : f \notin DOMAIN h => With(h, more)[f] = more[f]
BY DEF With

(* The uses of a device are those of lsblk's list.                         *)
LEMMA SameUses ==
    ASSUME NEW g, NEW h, g.dev = h.dev, g.walk = h.walk, NEW k, NEW ours
    PROVE  OsUses(g, k, ours) = OsUses(h, k, ours)
BY DEF OsUses, OtherUses, Uppermost

(* The tops are devices of lsblk's list.                                   *)
LEMMA TopsType ==
    ASSUME NEW h, h.byHand \in Seq(DOMAIN h.dev), h.dirs \in Seq(ToSet(h.dirs)),
           \A i \in h.tuned : i \in DOMAIN h.dirs => h.dirs[i].at \in DOMAIN h.dev
    PROVE  Tops(h) \in Seq(DOMAIN h.dev)
<1> DEFINE D == DOMAIN h.dev
           places == DOMAIN h.byHand
           found == [i \in DOMAIN h.dirs |-> h.dirs[i].at]
<1>1. <<>> \in Seq(D)
  OBVIOUS
<1>2. Len(h.byHand) \in Nat /\ \A i \in places : i \in 1 .. Len(h.byHand) => h.byHand[i] \in D
  OBVIOUS
<1>3. Len(h.dirs) \in Nat /\ DOMAIN h.dirs = 1 .. Len(h.dirs)
  OBVIOUS
<1>4. Len(found) \in Nat /\ DOMAIN found = 1 .. Len(found) /\ DOMAIN found = DOMAIN h.dirs
  BY <1>3
<1>5. \A i \in h.tuned : i \in 1 .. Len(found) => found[i] \in D
  <2> SUFFICES ASSUME NEW i \in h.tuned, i \in 1 .. Len(found) PROVE found[i] \in D
    OBVIOUS
  <2>1. i \in DOMAIN h.dirs
    BY <1>4
  <2>2. found[i] = h.dirs[i].at
    BY <2>1
  <2> QED BY <2>1, <2>2
<1>6. Tops(h) = IF h.byHand # <<>> THEN AddEach(<<>>, h.byHand, places) ELSE AddEach(<<>>, found, h.tuned)
  BY DEF Tops
<1> HIDE DEF D, places, found
<1>7. AddEach(<<>>, h.byHand, places) \in Seq(D)
  BY <1>1, <1>2, AddEachType
<1>8. AddEach(<<>>, found, h.tuned) \in Seq(D)
  BY <1>1, <1>4, <1>5, AddEachType
<1> QED BY <1>6, <1>7, <1>8 DEF D

(* Of the devices a plan lists, those it says free of the OS.              *)
PlanFree(h) == \A i \in DOMAIN h.plan : ~h.plan[i].os => OsUses(h, h.plan[i].k, {}) = {}

(* What is seen of a host, and the plan made of it.                        *)
LEMMA SeenPlan ==
    ASSUME NEW h, Given(h)
    PROVE  PlanFree(WithPlan(Seen(h)))
<1> DEFINE g1 == WithStacks(h)
           g2 == WithTuned(g1)
           g3 == WithTops(g2)
           g4 == WithOurs(g3)
           g5 == WithPlan(g4)
           D  == DOMAIN h.dev
<1>1. /\ DOMAIN g1 = Fields \cup {"kind", "walk"}
      /\ g1.dev = h.dev /\ g1.byHand = h.byHand /\ g1.dirs = h.dirs
      /\ \A k \in D : g1.walk[k] = Walk(h, k)
  <2> DEFINE more == [kind |-> [k \in DOMAIN h.dev |-> KindOf(h, k, h.dev[k])],
                      walk |-> [k \in DOMAIN h.dev |-> Walk(h, k)]]
  <2>1. g1 = With(h, more)
    BY DEF WithStacks
  <2>2. DOMAIN more = {"kind", "walk"} /\ \A k \in D : more.walk[k] = Walk(h, k)
    OBVIOUS
  <2> HIDE DEF more, g1
  <2>3. DOMAIN With(h, more) = Fields \cup {"kind", "walk"}
    BY <2>2, WithDomain DEF Given
  <2>4. \A f \in Fields : With(h, more)[f] = h[f]
    BY WithOld DEF Given
  <2>5. With(h, more).walk = more.walk
    BY <2>2, WithMore DEF Given, Fields
  <2> QED BY <2>1, <2>2, <2>3, <2>4, <2>5 DEF Fields
<1> HIDE DEF g1
<1>2. /\ DOMAIN g2 = Fields \cup {"kind", "walk", "tuned", "disk"}
      /\ g2.dev = h.dev /\ g2.byHand = h.byHand /\ g2.dirs = h.dirs /\ g2.walk = g1.walk
      /\ g2.tuned = TunedDirs(g1) /\ \A k \in D : g2.disk[k] = DiskOf(g1, k)
  <2> DEFINE more == [tuned |-> TunedDirs(g1), disk |-> [k \in DOMAIN g1.dev |-> DiskOf(g1, k)]]
  <2>1. g2 = With(g1, more)
    BY DEF WithTuned
  <2>2. DOMAIN more = {"tuned", "disk"} /\ more.tuned = TunedDirs(g1) /\ \A k \in D : more.disk[k] = DiskOf(g1, k)
    BY <1>1
  <2> HIDE DEF more, g2
  <2>3. DOMAIN With(g1, more) = Fields \cup {"kind", "walk", "tuned", "disk"}
    <3>1. DOMAIN With(g1, more) = DOMAIN g1 \cup DOMAIN more
      BY WithDomain
    <3> QED BY <1>1, <2>2, <3>1
  <2>4. \A f \in Fields \cup {"walk"} : With(g1, more)[f] = g1[f]
    BY <1>1, WithOld
  <2>5. With(g1, more).tuned = more.tuned /\ With(g1, more).disk = more.disk
    BY <1>1, <2>2, WithMore DEF Fields
  <2> QED BY <1>1, <2>1, <2>2, <2>3, <2>4, <2>5 DEF Fields
<1> HIDE DEF g2
<1>3. /\ DOMAIN g3 = Fields \cup {"kind", "walk", "tuned", "disk", "tops", "alone", "target"}
      /\ g3.dev = h.dev /\ g3.walk = g2.walk /\ g3.disk = g2.disk
      /\ g3.tops = Tops(g2)
  <2> DEFINE more == [tops   |-> Tops(g2),
                      alone  |-> {k \in {g2.dirs[i].at : i \in g2.tuned} : CommitlogAlone(g2, k)},
                      target |-> [k \in DOMAIN g2.dev |-> Target(g2, k)]]
  <2>1. g3 = With(g2, more)
    BY DEF WithTops
  <2>2. DOMAIN more = {"tops", "alone", "target"} /\ more.tops = Tops(g2)
    OBVIOUS
  <2> HIDE DEF more, g3
  <2>3. DOMAIN With(g2, more) = Fields \cup {"kind", "walk", "tuned", "disk", "tops", "alone", "target"}
    BY <1>2, <2>2, WithDomain
  <2>4. \A f \in Fields \cup {"walk", "disk"} : With(g2, more)[f] = g2[f]
    BY <1>2, WithOld
  <2>5. With(g2, more).tops = more.tops
    BY <1>2, <2>2, WithMore DEF Fields
  <2> QED BY <1>2, <2>1, <2>2, <2>3, <2>4, <2>5 DEF Fields
<1> HIDE DEF g3
<1>4. /\ DOMAIN g4 = Fields \cup {"kind", "walk", "tuned", "disk", "tops", "alone", "target", "ours"}
      /\ g4.dev = h.dev /\ g4.walk = g3.walk /\ g4.disk = g3.disk /\ g4.tops = g3.tops
      /\ g4.ours = Ours(g3)
  <2> DEFINE more == [ours |-> Ours(g3)]
  <2>1. g4 = With(g3, more)
    BY DEF WithOurs
  <2>2. DOMAIN more = {"ours"} /\ more.ours = Ours(g3)
    OBVIOUS
  <2> HIDE DEF more, g4
  <2>3. DOMAIN With(g3, more) = Fields \cup {"kind", "walk", "tuned", "disk", "tops", "alone", "target", "ours"}
    <3>1. DOMAIN With(g3, more) = DOMAIN g3 \cup DOMAIN more
      BY WithDomain
    <3> QED BY <1>3, <2>2, <3>1
  <2>4. \A f \in Fields \cup {"walk", "disk", "tops"} : With(g3, more)[f] = g3[f]
    BY <1>3, WithOld
  <2>5. With(g3, more).ours = more.ours
    BY <1>3, <2>2, WithMore DEF Fields
  <2> QED BY <1>3, <2>1, <2>2, <2>3, <2>4, <2>5 DEF Fields
<1> HIDE DEF g4
<1>5. g5.dev = g4.dev /\ g5.walk = g4.walk /\ g5.plan = Plan(g4)
  <2> DEFINE more == [plan |-> Plan(g4)]
  <2>1. g5 = With(g4, more)
    BY DEF WithPlan
  <2>2. DOMAIN more = {"plan"} /\ more.plan = Plan(g4)
    OBVIOUS
  <2> HIDE DEF more, g5
  <2>3. \A f \in {"dev", "walk"} : With(g4, more)[f] = g4[f]
    BY <1>4, WithOld DEF Fields
  <2>4. With(g4, more).plan = more.plan
    BY <1>4, <2>2, WithMore DEF Fields
  <2> QED BY <2>1, <2>2, <2>3, <2>4
<1> HIDE DEF g5
<1>6. \A k \in D : WalkFrom(h, k, g4.walk[k])
  BY <1>1, <1>2, <1>3, <1>4, WalkType DEF Given
<1>7. \A k \in D : g4.disk[k] \in D
  <2> SUFFICES ASSUME NEW k \in D PROVE g4.disk[k] \in D
    OBVIOUS
  <2>1. g4.disk[k] = DiskOf(g1, k)
    BY <1>2, <1>3, <1>4
  <2>2. h.dev[k].parents \in Seq(D)
    BY DEF Given, Listed
  <2>3. h.dev[k].parents # <<>> => h.dev[k].parents[1] \in D
    BY <2>2
  <2> QED BY <1>1, <2>1, <2>3 DEF DiskOf
<1>8. g4.tops \in Seq(D)
  <2>1. ASSUME NEW i \in g2.tuned, i \in DOMAIN g2.dirs PROVE g2.dirs[i].at \in DOMAIN g2.dev
    BY <1>1, <1>2, <2>1 DEF TunedDirs, Given
  <2>2. g2.byHand \in Seq(DOMAIN g2.dev) /\ g2.dirs \in Seq(ToSet(g2.dirs))
    BY <1>2 DEF Given
  <2>3. Tops(g2) \in Seq(DOMAIN g2.dev)
    BY <2>1, <2>2, TopsType
  <2> QED BY <1>2, <1>3, <1>4, <2>3
<1>9. LookedUp(g4)
  BY <1>4, <1>6, <1>7, <1>8 DEF LookedUp, WalkFrom
<1>10. \A u \in DOMAIN g4.dev : Contains(g4.walk[u], u)
  <2> SUFFICES ASSUME NEW u \in D PROVE Contains(g4.walk[u], u)
    BY <1>4
  <2> DEFINE s == g4.walk[u]
  <2>1. s \in Seq(D) /\ Len(s) >= 1 /\ s[1] = u
    BY <1>6 DEF WalkFrom
  <2> HIDE DEF s
  <2>2. 1 \in 1 .. Len(s)
    BY <2>1
  <2>3. Contains(s, u)
    BY <2>1, <2>2 DEF Contains
  <2> QED BY <2>3 DEF s
<1>11. \A u \in g4.ours : OsUses(g4, u, {}) = {}
  <2> SUFFICES ASSUME NEW u \in g4.ours PROVE OsUses(g4, u, {}) = {}
    OBVIOUS
  <2>1. OsUses(g3, u, {}) = {}
    BY <1>4 DEF Ours
  <2>2. OsUses(g4, u, {}) = OsUses(g3, u, {})
    BY <1>3, <1>4, SameUses
  <2> QED BY <2>1, <2>2
<1>12. Plan(g4) \in Seq(Entries(g4))
  BY <1>9, PlanType
<1>13. ASSUME NEW i \in DOMAIN Plan(g4), ~Plan(g4)[i].os PROVE OsUses(g4, Plan(g4)[i].k, {}) = {}
  <2>1. Plan(g4)[i] \in Entries(g4)
    BY <1>12, <1>13
  <2>2. PICK k \in DOMAIN g4.dev, x \in DOMAIN g4.dev : Plan(g4)[i] = Entry(g4, k, x)
    BY <2>1 DEF Entries
  <2>3. ~Entry(g4, k, x).os
    BY <1>13, <2>2
  <2>4. OsUses(g4, x, {}) = {}
    BY <1>10, <1>11, <2>3, FreeOfOs
  <2>5. Entry(g4, k, x).k = x
    BY DEF Entry
  <2> QED BY <2>2, <2>4, <2>5
<1>14. PlanFree(g5)
  <2> SUFFICES ASSUME NEW i \in DOMAIN g5.plan, ~g5.plan[i].os PROVE OsUses(g5, g5.plan[i].k, {}) = {}
    BY DEF PlanFree
  <2>1. OsUses(g4, Plan(g4)[i].k, {}) = {}
    BY <1>5, <1>13
  <2>2. OsUses(g5, Plan(g4)[i].k, {}) = OsUses(g4, Plan(g4)[i].k, {})
    BY <1>5, SameUses
  <2> QED BY <1>5, <2>1, <2>2
<1> QED BY <1>14 DEF Seen, g1, g2, g3, g4, g5

(* An imported inventory tells as much of the host.                        *)
LEMMA ImportedGiven ==
    ASSUME NEW h, Given(h)
    PROVE  Given(AsImported(h))
<1> DEFINE yes == TRUE
           none == <<>>
           g == [h EXCEPT !.byHand = none, !.tuneOs = yes]
<1>1. AsImported(h) = g
  BY DEF AsImported
<1>2. none \in Seq(DOMAIN h.dev)
  OBVIOUS
<1> HIDE DEF yes, none
<1>3. DOMAIN g = Fields /\ g.dev = h.dev /\ g.dirs = h.dirs /\ g.byHand = none
  BY DEF Given, Fields
<1> HIDE DEF g
<1> QED BY <1>1, <1>2, <1>3 DEF Given, Listed

(* What a run is based on: the plan of the host, of which LVM is asked the *)
(* volumes free of the OS.                                                 *)
RunFields ==
    {"at", "plan", "now", "running", "lvraRead", "want", "wrote", "switch", "todo", "failed", "refused"}

DisksInv ==
    /\ name \in DOMAIN Hosts
    /\ PlanFree(host)
    /\ run # Idle => /\ DOMAIN run = RunFields
                     /\ run.plan = host.plan
                     /\ run.todo.lvm \subseteq ByLvmOf(host.plan)

(* Of either inventory, the plan is free of the OS where it says so.       *)
LEMMA ViewFree ==
    ASSUME NEW n \in DOMAIN Hosts, NEW import
    PROVE  PlanFree(View(n, import))
<1>1. Given(Hosts[n])
  BY HostsAssumption DEF Given, Listed, Fields
<1>2. Given(AsImported(Hosts[n]))
  BY <1>1, ImportedGiven
<1>3. CASE import
  <2>1. View(n, import) = WithPlan(Seen(AsImported(Hosts[n])))
    BY <1>3 DEF View
  <2> QED BY <1>2, <2>1, SeenPlan
<1>4. CASE ~import
  <2>1. View(n, import) = WithPlan(Seen(Hosts[n]))
    BY <1>4 DEF View
  <2> QED BY <1>1, <2>1, SeenPlan
<1> QED BY <1>3, <1>4

(* It is so of the first host.                                             *)
LEMMA InitDisks == Init => DisksInv
<1> SUFFICES ASSUME Init PROVE DisksInv
  OBVIOUS
<1>1. name \in DOMAIN Hosts
  BY HostsAssumption DEF Init
<1>2. PlanFree(View(name, FALSE))
  BY <1>1, ViewFree
<1> QED BY <1>1, <1>2 DEF Init, DisksInv

(* The tasks a run is at, once it began.                                   *)
LEMMA RunAt ==
    ASSUME DisksInv, run.at # "idle"
    PROVE  run # Idle /\ DOMAIN run = RunFields /\ run.plan = host.plan /\ run.todo.lvm \subseteq ByLvmOf(host.plan)
BY DEF DisksInv, Idle

(* A run goes on with the plan it was launched with.                       *)
RunGoesOn ==
    /\ UNCHANGED <<name, host>>
    /\ DOMAIN run' = RunFields /\ run'.plan = run.plan
    /\ run'.todo.lvm \subseteq ByLvmOf(host.plan)

(* Every step of the disks keeps to the plan.                              *)
LEMMA DisksStep ==
    ASSUME DisksInv, Next
    PROVE  DisksInv'
<1>1. CASE UNCHANGED <<name, host>> /\ run' = Idle
  BY <1>1 DEF DisksInv
<1>2. CASE UNCHANGED <<name, host, run>>
  BY <1>2 DEF DisksInv, Idle
<1>3. CASE RunGoesOn /\ run.plan = host.plan
  BY <1>3 DEF DisksInv, RunGoesOn
<1>4. CASE Launch
  <2>1. UNCHANGED <<name, host>>
    BY <1>4 DEF Launch, node
  <2>2. CASE run' = Idle
    BY <1>1, <2>1, <2>2
  <2>3. CASE run' # Idle
    <3> DEFINE wanted == TunedWanted(TunedNow(host.plan))
               todo == Changes(host.plan, lvra, LvchangeNow, ra, sched)
               at == IF host.plan = <<>> THEN "old" ELSE "profile"
               now == LvchangeNow
    <3>1. todo.lvm \subseteq ByLvmOf(host.plan)
      BY DEF Changes
    <3>2. ~Refused(host, host.plan)
      BY <1>4, <2>3 DEF Launch
    <3>3. run' = [at |-> at, plan |-> host.plan, now |-> now, running |-> cassandra, lvraRead |-> lvra,
                  want |-> wanted, wrote |-> FALSE, switch |-> "no", todo |-> todo, failed |-> {}, refused |-> {}]
      BY <1>4, <3>2 DEF Launch
    <3> HIDE DEF wanted, todo, at, now
    <3> QED BY <2>1, <3>1, <3>3 DEF DisksInv, RunFields
  <2> QED BY <2>2, <2>3
<1>5. CASE WriteProfile
  <2>1. run.at # "idle" /\ UNCHANGED <<name, host>>
    BY <1>5 DEF WriteProfile, node
  <2>2. PICK wrote, at : run' = [run EXCEPT !.wrote = wrote, !.at = at]
    BY <1>5 DEF WriteProfile
  <2>3. run.plan = host.plan /\ RunGoesOn
    BY <2>1, <2>2, RunAt DEF RunGoesOn, RunFields
  <2> QED BY <1>3, <2>3
<1>6. CASE SwitchTuned
  <2>1. run.at # "idle" /\ UNCHANGED <<name, host>>
    BY <1>6 DEF SwitchTuned, node
  <2> DEFINE todo == Changes(run.plan, run.lvraRead, run.now, ra', sched')
  <2>2. PICK ok \in BOOLEAN :
            run' = [run EXCEPT !.at = "lvm", !.switch = IF ok THEN "done" ELSE "failed", !.todo = todo]
    BY <1>6 DEF SwitchTuned
  <2> DEFINE switch == IF ok THEN "done" ELSE "failed"
  <2>3. todo.lvm \subseteq ByLvmOf(run.plan)
    BY DEF Changes
  <2>4. run' = [run EXCEPT !.at = "lvm", !.switch = switch, !.todo = todo]
    BY <2>2
  <2> HIDE DEF todo, switch
  <2>5. run.plan = host.plan /\ RunGoesOn
    BY <2>1, <2>3, <2>4, RunAt DEF RunGoesOn, RunFields
  <2> QED BY <1>3, <2>5
<1>7. CASE SetLvm
  <2>1. run.at # "idle" /\ UNCHANGED <<name, host>>
    BY <1>7 DEF SetLvm, node
  <2>2. PICK failed : run' = [run EXCEPT !.at = "ra", !.failed = failed]
    BY <1>7 DEF SetLvm
  <2>3. run.plan = host.plan /\ RunGoesOn
    BY <2>1, <2>2, RunAt DEF RunGoesOn, RunFields
  <2> QED BY <1>3, <2>3
<1>8. CASE SetReadAhead
  <2>1. run.at # "idle" /\ UNCHANGED <<name, host>> /\ run' = [run EXCEPT !.at = "sched"]
    BY <1>8 DEF SetReadAhead, node, Goto
  <2>2. run.plan = host.plan /\ RunGoesOn
    BY <2>1, RunAt DEF RunGoesOn, RunFields
  <2> QED BY <1>3, <2>2
<1>9. CASE SetScheduler
  <2>1. run.at # "idle" /\ UNCHANGED <<name, host>>
    BY <1>9 DEF SetScheduler, node
  <2>2. PICK gone : run' = [run EXCEPT !.at = "rule", !.refused = gone]
    BY <1>9 DEF SetScheduler
  <2>3. run.plan = host.plan /\ RunGoesOn
    BY <2>1, <2>2, RunAt DEF RunGoesOn, RunFields
  <2> QED BY <1>3, <2>3
<1>10. CASE WriteRule
  <2>1. run.at # "idle" /\ UNCHANGED <<name, host>> /\ run' = [run EXCEPT !.at = "old"]
    BY <1>10 DEF WriteRule, node, Goto
  <2>2. run.plan = host.plan /\ RunGoesOn
    BY <2>1, RunAt DEF RunGoesOn, RunFields
  <2> QED BY <1>3, <2>2
<1>11. CASE RemoveOldRules \/ Interrupt \/ Boot
  BY <1>1, <1>11 DEF RemoveOldRules, Interrupt, Boot, node
<1>12. CASE TunedRestart \/ LvmReload \/ StartOrStop \/ EditKb \/ AdminTunes
  BY <1>2, <1>12 DEF TunedRestart, LvmReload, StartOrStop, EditKb, AdminTunes, node
<1>13. CASE Import
  <2>1. host' = View(name, TRUE) /\ name' = name /\ name \in DOMAIN Hosts /\ run' = Idle
    BY <1>13 DEF Import, DisksInv
  <2>2. PlanFree(View(name, TRUE))
    BY <2>1, ViewFree
  <2> QED BY <2>1, <2>2 DEF DisksInv
<1>14. CASE Widen
  <2>1. host' = View(name', byImport) /\ name' \in DOMAIN Hosts /\ run' = Idle
    BY <1>14 DEF Widen, Edits
  <2>2. PlanFree(View(name', byImport))
    BY <2>1, ViewFree
  <2> QED BY <2>1, <2>2 DEF DisksInv
<1> QED BY <1>4, <1>5, <1>6, <1>7, <1>8, <1>9, <1>10, <1>11, <1>12, <1>13, <1>14 DEF Next, RoleStep

OsVolumesLeft == \A k \in DOMAIN lvra : lvra'[k] # lvra[k] => OsUses(host, k, {}) = {}

(* What LVM keeps changes by the role's task alone, on volumes of the plan. *)
LEMMA LvmStep ==
    ASSUME DisksInv, Next, lvra' # lvra
    PROVE  OsVolumesLeft
<1>1. SetLvm
  BY DEF Next, Launch, RoleStep, WriteProfile, SwitchTuned, SetReadAhead, SetScheduler, WriteRule,
         RemoveOldRules, Interrupt, Import, Boot, TunedRestart, LvmReload, StartOrStop, EditKb, AdminTunes,
         Widen, Edits, devices
<1> SUFFICES ASSUME NEW k \in DOMAIN lvra, lvra'[k] # lvra[k] PROVE OsUses(host, k, {}) = {}
  BY DEF OsVolumesLeft
<1>2. k \in run.todo.lvm
  BY <1>1 DEF SetLvm
<1>3. k \in ByLvmOf(host.plan)
  BY <1>1, <1>2, RunAt DEF SetLvm
<1> QED BY <1>3 DEF ByLvmOf, DisksInv, PlanFree

(* LVM is never asked to reload a volume that holds a filesystem of the OS *)
(* (OsVolumesNotReloaded), whatever the stacks of the host, its directories *)
(* and its inventory, whatever changes between the runs or stops them.      *)
THEOREM OsVolumesStay == OneHostSpec => OsVolumesNotReloaded
<1>1. OneHostInit => DisksInv
  BY InitDisks DEF OneHostInit, ResetInit
<1>2. DisksInv /\ [Disks \/ Resets]_allVars => DisksInv'
  <2> SUFFICES ASSUME DisksInv, [Disks \/ Resets]_allVars PROVE DisksInv'
    OBVIOUS
  <2>1. CASE Disks
    BY <2>1, DisksStep DEF Disks
  <2>2. CASE Resets \/ UNCHANGED allVars
    <3>1. UNCHANGED <<name, host, run>>
      BY <2>2 DEF Resets, allVars, diskVars
    <3> QED BY <3>1 DEF DisksInv, Idle
  <2> QED BY <2>1, <2>2
<1>3. DisksInv /\ [Disks \/ Resets]_allVars => [OsVolumesLeft]_lvra
  <2> SUFFICES ASSUME DisksInv, [Disks \/ Resets]_allVars, lvra' # lvra PROVE OsVolumesLeft
    OBVIOUS
  <2>1. Next
    BY DEF Disks, Resets, allVars, diskVars
  <2> QED BY <2>1, LvmStep
<1> QED BY <1>1, <1>2, <1>3, PTL DEF OneHostSpec, OsVolumesNotReloaded, OsVolumesLeft
=============================================================================
