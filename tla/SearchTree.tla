----------------------------- MODULE SearchTree -----------------------------
(***************************************************************************)
(* The binary tree of tsearch, tdelete, twalk (libs/tsearch.c) and tfind   *)
(* (libs/tfind.c).  rootp, a pointer to the pointer that leads to a node,  *)
(* is a place: the root, or one side of a node.                            *)
(***************************************************************************)
EXTENDS Integers, Sequences, FiniteSets

CONSTANTS
    Keys,           \* numbers, which compar subtracts
    Nodes,          \* addresses that malloc may give a node
    Nil,
    Scarce          \* whether malloc may fail before Nodes are used up

ASSUME TreeAssumption ==
    /\ Keys \subseteq Int /\ IsFiniteSet(Nodes) /\ Nil \notin Nodes
    /\ Scarce \in BOOLEAN

VARIABLES
    root,
    key, left, right,   \* the nodes' fields, 0 and Nil in one that is free
    allocated,          \* nodes that malloc gave and free did not get back
    found               \* whether the last call returned a node

treeVars == <<root, key, left, right, allocated, found>>
tree == [root |-> root, left |-> left, right |-> right]

Root == <<"root", Nil>>
Left(n) == <<"left", n>>
Right(n) == <<"right", n>>

\* *rootp, and tree t with n stored there.
At(t, p) == CASE p[1] = "root" -> t.root
              [] p[1] = "left" -> t.left[p[2]]
              [] p[1] = "right" -> t.right[p[2]]

Put(t, p, n) == CASE p[1] = "root" -> [t EXCEPT !.root = n]
                  [] p[1] = "left" -> [t EXCEPT !.left[p[2]] = n]
                  [] p[1] = "right" -> [t EXCEPT !.right[p[2]] = n]

-----------------------------------------------------------------------------

\* Variant for mutation: the branches swapped.
DownSwapped(k, p) ==
    LET n == At(tree, p)
    IN  IF n = Nil \/ key[n] = k THEN p
        ELSE IF k < key[n] THEN Right(n) ELSE Left(n)

\* One turn of the loop that all of them start with.
Down(k, p) ==
    LET n == At(tree, p)
    IN  IF n = Nil \/ key[n] = k THEN p
        ELSE IF k < key[n] THEN Left(n) ELSE Right(n)

\* The place of key k, or where it would go.
PlaceOf(k) ==
    LET at[i \in 0 .. Cardinality(Nodes)] == IF i = 0 THEN Root ELSE Down(k, at[i - 1])
    IN  at[Cardinality(Nodes)]

\* The node, from n to the left, whose left branch has none itself.
LastBranch(n) ==
    LET at[i \in 0 .. Cardinality(Nodes)] ==
          IF i = 0 THEN n
          ELSE IF left[left[at[i - 1]]] = Nil THEN at[i - 1] ELSE left[at[i - 1]]
    IN  at[Cardinality(Nodes)]

\* The keys when n is a new node for k.
Keyed(n, k) == [key EXCEPT ![n] = k]

Become(t) == root' = t.root /\ left' = t.left /\ right' = t.right

\* Node n given to free: what it holds no longer matters.
Cleared(t, n) ==
    [root |-> t.root, left |-> [t.left EXCEPT ![n] = Nil], right |-> [t.right EXCEPT ![n] = Nil]]

tsearch(k) ==
    LET p == PlaceOf(k)
    IN  \/ /\ At(tree, p) # Nil
           /\ found' = TRUE /\ UNCHANGED <<root, key, left, right, allocated>>
        \/ /\ At(tree, p) = Nil
           /\ \E n \in Nodes \ allocated :
                /\ Become(Put(tree, p, n))
                /\ key' = Keyed(n, k)
                /\ allocated' = allocated \cup {n} /\ found' = TRUE
        \/ /\ At(tree, p) = Nil /\ Scarce
           /\ found' = FALSE /\ UNCHANGED <<root, key, left, right, allocated>>

tfind(k) ==
    /\ found' = (At(tree, PlaceOf(k)) # Nil)
    /\ UNCHANGED <<root, key, left, right, allocated>>

\* D3: s, the leftmost node of x's right subtree, leaves its parent and takes
\* the place of x.
Splice(x, parent, s) ==
    [root |-> root, left |-> [left EXCEPT ![parent] = right[s], ![s] = left[x]],
     right |-> [right EXCEPT ![s] = right[x]]]

\* Variant for mutation: the left child is lost.
ShortForgotten(x) == tree

\* D2: the right child has no left branch.
Short(x) == [tree EXCEPT !.left[right[x]] = left[x]]

\* The tree without the node x at place p.
Without(p, x) ==
    CASE left[x] = Nil -> Put(tree, p, right[x])
      [] left[x] # Nil /\ right[x] = Nil -> Put(tree, p, left[x])
      [] left[x] # Nil /\ right[x] # Nil /\ left[right[x]] = Nil ->
           Put(Short(x), p, right[x])
      [] left[x] # Nil /\ right[x] # Nil /\ left[right[x]] # Nil ->
           LET parent == LastBranch(right[x])
               s == left[parent]
           IN  Put(Splice(x, parent, s), p, s)

Released(x) == allocated \ {x}

\* The parent is returned, or for the root the node that was freed.
tdelete(k) ==
    LET p == PlaceOf(k)
        x == At(tree, p)
    IN  /\ found' = (x # Nil)
        /\ IF x = Nil THEN UNCHANGED <<root, key, left, right, allocated>>
           ELSE /\ Become(Cleared(Without(p, x), x))
                /\ key' = [key EXCEPT ![x] = 0]
                /\ allocated' = Released(x)

\* The visits of action to node n, where lower are those to the nodes below it.
trecurse(n, lower) ==
    IF n = Nil THEN <<>>
    ELSE IF left[n] = Nil /\ right[n] = Nil THEN <<[node |-> n, which |-> "leaf"]>>
    ELSE <<[node |-> n, which |-> "preorder"]>> \o lower[left[n]]
           \o <<[node |-> n, which |-> "postorder"]>> \o lower[right[n]]
           \o <<[node |-> n, which |-> "endorder"]>>

\* twalk, which changes nothing: the visits, to d levels of the tree and to all.
twalk ==
    LET visits[d \in 0 .. Cardinality(Nodes)] ==
          [n \in Nodes \cup {Nil} |-> IF d = 0 THEN <<>> ELSE trecurse(n, visits[d - 1])]
    IN  visits[Cardinality(Nodes)][root]

\* The visits at which a user who wants the keys in order takes one.
Met == {"leaf", "postorder"}

TreeInit ==
    /\ root = Nil /\ allocated = {} /\ found = FALSE
    /\ key = [n \in Nodes |-> 0]
    /\ left = [n \in Nodes |-> Nil] /\ right = [n \in Nodes |-> Nil]

TreeNext == \E k \in Keys : tsearch(k) \/ tfind(k) \/ tdelete(k)

TreeSpec == TreeInit /\ [][TreeNext]_treeVars

-----------------------------------------------------------------------------

\* The nodes of the tree at n, n's own included.
Below(n) ==
    LET down[d \in 0 .. Cardinality(Nodes)] ==
          IF d = 0 THEN {n}
          ELSE down[d - 1] \cup UNION {{left[m], right[m]} : m \in down[d - 1] \ {Nil}}
    IN  down[Cardinality(Nodes)] \ {Nil}

\* The tree has all the nodes that are allocated and no other: tdelete neither
\* loses a subtree nor leaves a pointer to what it freed.
HoldsItsNodes == Below(root) = allocated

\* twalk meets every key once and in order, although a node with children is
\* reported three times and a leaf once: whatever was taken out of it, it is a
\* search tree.
WalksInOrder ==
    LET met == {i \in DOMAIN twalk : twalk[i].which \in Met}
    IN  /\ {twalk[i].node : i \in met} = allocated
        /\ \A i, j \in met : i < j => key[twalk[i].node] < key[twalk[j].node]

Ordered == INSTANCE OrderedSet WITH keys <- {key[n] : n \in Below(root)}, MayFail <- Scarce

\* For its user the tree is the set of the keys that were added and not
\* deleted, in whatever order, and each call does to it what its name says.
IsAnOrderedSet ==
    /\ Ordered!SetInit
    /\ [][\A k \in Keys : /\ tsearch(k) => Ordered!Search(k)
                          /\ tfind(k) => Ordered!Find(k)
                          /\ tdelete(k) => Ordered!Delete(k)]_treeVars

=============================================================================
