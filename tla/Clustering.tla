----------------------------- MODULE Clustering -----------------------------
(***************************************************************************)
(* How bo-cluster makes clusters of the strikes of a window                *)
(* (src/src/clustering/base.rs): single linkage, by way of a minimum       *)
(* spanning tree; the merges up to a distance; an outline for every        *)
(* cluster of more than two strikes; and the merge of clusters whose       *)
(* outlines overlap.  A sequential algorithm, one action per turn of each  *)
(* of its loops.                                                           *)
(*                                                                         *)
(* The strikes are 1..n, so the labels of merges begin with n + 1.  The    *)
(* geometry is floating point, and here a parameter: an outline is the set *)
(* of places it covers, {} where there is none (points on a line).         *)
(***************************************************************************)
EXTENDS Integers, Sequences, SequencesExt, FiniteSetsExt

CONSTANTS Case,           (* windows: [n, d, limit, ...], d the distances    *)
          Outline(_, _),  (* build_shape: of some strikes of a window        *)
          OneRing(_)      (* whether an area is one ring without a hole      *)

VARIABLES window,    (* the case                                           *)
          phase,     (* the loop: "tree", "link", "cut", "merge", "built"  *)
          inTree,    (* the strikes in the tree                            *)
          key,       (* per strike: its distance to the tree,              *)
          parent,    (* and the strike of the tree it is from, or 0        *)
          edges,     (* of the tree; those to link, once it is whole       *)
          root,      (* union-find: the first strike of each one's cluster *)
          label,     (* by root: cluster_id                                *)
          merges,    (* the rows of single_linkage, and then those to do   *)
          clusters,  (* the members by label                               *)
          found      (* the clusters with their outlines                   *)

buildVars == <<window, phase, inTree, key, parent, edges, root, label, merges, clusters, found>>

n == window.n
Strike == 1..n
Far(w) == 1 + Max({w.d[i][j] : i, j \in 1..w.n})

BuildInit(w) ==
    /\ window = w
    /\ phase = "tree"
    /\ inTree = {}
    /\ key = [v \in 1..w.n |-> IF v = 1 THEN 0 ELSE Far(w)]
    /\ parent = [v \in 1..w.n |-> 0]
    /\ edges = << >>
    /\ root = [v \in 1..w.n |-> v]
    /\ label = [v \in 1..w.n |-> v]
    /\ merges = << >>
    /\ clusters = [v \in 1..w.n |-> {v}]
    /\ found = << >>
-----------------------------------------------------------------------------
(* single_linkage *)

\* With fewer than three strikes there is nothing to do.
TooFew ==
    /\ phase = "tree"
    /\ n < 3
    /\ phase' = "built"
    /\ UNCHANGED <<window, inTree, key, parent, edges, root, label, merges, clusters, found>>

Nearer(u, v) == v \notin inTree \cup {u} /\ window.d[u][v] < key[v]

\* Prim's tree: the strike outside that is nearest to it, the first of several.
Grow ==
    /\ phase = "tree"
    /\ n >= 3
    /\ \E u \in Strike \ inTree :
          /\ \A v \in Strike \ inTree : key[u] < key[v] \/ (key[u] = key[v] /\ u <= v)
          /\ inTree' = inTree \cup {u}
          /\ edges' = IF parent[u] = 0 THEN edges
                      ELSE Append(edges, [distance |-> key[u], i |-> Min({u, parent[u]}),
                                          j |-> Max({u, parent[u]})])
          /\ key' = [v \in Strike |-> IF Nearer(u, v) THEN window.d[u][v] ELSE key[v]]
          /\ parent' = [v \in Strike |-> IF Nearer(u, v) THEN u ELSE parent[v]]
    /\ UNCHANGED <<window, phase, root, label, merges, clusters, found>>

Before(e, f) ==
    \/ e.distance < f.distance
    \/ e.distance = f.distance /\ (e.i < f.i \/ (e.i = f.i /\ e.j < f.j))

SortEdges ==
    /\ phase = "tree"
    /\ n >= 3 /\ inTree = Strike
    /\ edges' = SortSeq(edges, Before)
    /\ phase' = "link"
    /\ UNCHANGED <<window, inTree, key, parent, root, label, merges, clusters, found>>

Of(r) == {v \in Strike : root[v] = r}

\* The next edge joins two clusters, under the next label and the lower root.
\* (An edge of a tree joins no cluster with itself, for which the code looks.)
Link ==
    /\ phase = "link"
    /\ edges # << >>
    /\ LET e == Head(edges)
           roots == {root[e.i], root[e.j]}
           labels == {label[r] : r \in roots}
           members == UNION {Of(r) : r \in roots}
       IN  /\ merges' = Append(merges, [a |-> Min(labels), b |-> Max(labels),
                             distance |-> e.distance, size |-> Cardinality(members)])
           /\ root' = [v \in Strike |-> IF v \in members THEN Min(roots) ELSE root[v]]
           /\ label' = [label EXCEPT ![Min(roots)] = n + 1 + Len(merges)]
    /\ edges' = Tail(edges)
    /\ UNCHANGED <<window, phase, inTree, key, parent, clusters, found>>

Linked ==
    /\ phase = "link"
    /\ edges = << >>
    /\ phase' = "cut"
    /\ UNCHANGED <<window, inTree, key, parent, edges, root, label, merges, clusters, found>>
-----------------------------------------------------------------------------
(* build_clusters *)

\* Mutant: a merge at the very limit is not made any more.
Below(merge) == merge.distance < window.limit

Within(merge) == merge.distance <= window.limit

NextLabel == 2 * n - Len(merges)

Apply ==
    /\ phase = "cut"
    /\ merges # << >>
    /\ LET merge == Head(merges)
           rest == DOMAIN clusters \ {merge.a, merge.b}
       IN  /\ Within(merge)
           /\ clusters' = [l \in rest \cup {NextLabel} |->
                 IF l \in rest THEN clusters[l] ELSE clusters[merge.a] \cup clusters[merge.b]]
    /\ merges' = Tail(merges)
    /\ UNCHANGED <<window, phase, inTree, key, parent, edges, root, label, found>>

ByFirstMember(cs) == SortSeq(cs, LAMBDA c, k : Min(c.members) < Min(k.members))

\* extract_clustered_events, and an outline for each of more than two strikes.
Shape ==
    /\ phase = "cut"
    /\ merges # << >> => ~Within(Head(merges))
    /\ LET clustered == {clusters[l] : l \in {k \in DOMAIN clusters : k > n}}
           shaped == {C \in clustered : Cardinality(C) > 2 /\ Outline(window, C) # {}}
       IN  found' = ByFirstMember(SetToSeq(
                        {[members |-> C, shape |-> Outline(window, C)] : C \in shaped}))
    /\ phase' = "merge"
    /\ UNCHANGED <<window, inTree, key, parent, edges, root, label, merges, clusters>>

Overlap(c, k) == c.shape \cap k.shape # {}
Overlapping == {p \in (DOMAIN found) \X (DOMAIN found) :
                    p[1] < p[2] /\ Overlap(found[p[1]], found[p[2]])}

\* union_rings, or the outline of all the members where the union is not one
\* ring without a hole.
Merged(c, k) ==
    LET members == c.members \cup k.members
        both == c.shape \cup k.shape
    IN  [members |-> members,
         shape |-> IF OneRing(both) THEN both ELSE Outline(window, members)]

\* merge_overlapping: the first two that overlap become one.
MergeTwo ==
    /\ phase = "merge"
    /\ \E p \in Overlapping :
          /\ \A q \in Overlapping : p[1] < q[1] \/ (p[1] = q[1] /\ p[2] <= q[2])
          /\ found' = RemoveAt([found EXCEPT ![p[1]] = Merged(found[p[1]], found[p[2]])], p[2])
    /\ UNCHANGED <<window, phase, inTree, key, parent, edges, root, label, merges, clusters>>

\* The loop ends with a pass that finds no two.
NoneOverlap == Overlapping = {}

Emit ==
    /\ phase = "merge"
    /\ NoneOverlap
    /\ found' = ByFirstMember(found)
    /\ phase' = "built"
    /\ UNCHANGED <<window, inTree, key, parent, edges, root, label, merges, clusters>>

BuildStep ==
    TooFew \/ Grow \/ SortEdges \/ Link \/ Linked \/ Apply \/ Shape \/ MergeTwo \/ Emit
-----------------------------------------------------------------------------
(* Properties *)

\* The distance of two clusters: of their nearest strikes.
Gap(C, K) == Min({window.d[i][j] : i \in C, j \in K})

\* Single linkage as it is defined: the next merge is of the two clusters that
\* are nearest to each other of all there are.
NextIsNearest ==
    LET merge == Head(merges)
    IN  /\ {merge.a, merge.b} \subseteq DOMAIN clusters /\ merge.a < merge.b
        /\ merge.distance = Gap(clusters[merge.a], clusters[merge.b])
        /\ \A k, l \in DOMAIN clusters :
              k # l => merge.distance <= Gap(clusters[k], clusters[l])
        /\ merge.size = Cardinality(clusters[merge.a] \cup clusters[merge.b])

\* The strikes that are reached from i by steps up to the limit.
Reached(i) ==
    LET Reach(S) == S \cup {j \in Strike : \E k \in S : window.d[k][j] <= window.limit}
    IN  FoldLeft(LAMBDA S, k : Reach(S), {i}, [k \in Strike |-> k])

Storms == {C \in {Reached(i) : i \in Strike} : Cardinality(C) > 2 /\ Outline(window, C) # {}}

\* What covers some storms: their outlines, or the outline of them all.
Cover(Cs) == Outline(window, UNION Cs) \cup UNION {Outline(window, C) : C \in Cs}

\* What is shown of a window: every storm is in one cluster and under its
\* outline; no two outlines overlap, and no storm is in a cluster with others
\* that it does not overlap.  A storm is what steps up to the limit connect,
\* whichever of the trees of equal distances was found.
StormsAreOne ==
    /\ phase = "cut" /\ merges # << >> => NextIsNearest
    /\ phase = "built" =>
          /\ UNION {found[k].members : k \in DOMAIN found} = UNION Storms
          /\ \A C \in Storms : \E k \in DOMAIN found :
                C \subseteq found[k].members /\ Outline(window, C) \subseteq found[k].shape
          /\ \A i, j \in DOMAIN found : i < j =>
                ~Overlap(found[i], found[j]) /\ Min(found[i].members) < Min(found[j].members)
          /\ \A k \in DOMAIN found :
                LET joined == {C \in Storms : C \subseteq found[k].members}
                IN  \A C \in joined :
                       joined # {C} => Outline(window, C) \cap Cover(joined \ {C}) # {}
=============================================================================
