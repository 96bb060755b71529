------------------------------ MODULE CopyTree ------------------------------
(***************************************************************************)
(* copy() of a node (packages/server: handlers/copy): the node and, if it  *)
(* is to be deep, its descendants are read, every one of them is given a   *)
(* new id, and its parents are replaced by their copies where they are     *)
(* copied too, in whatever order the recursion meets them.  Then all       *)
(* copies are set at once, each of which may fail.                         *)
(*                                                                         *)
(* A node is a number, 1 the node to copy, 0 a parent outside the tree;    *)
(* a parent has a lower number than its child.                             *)
(***************************************************************************)
EXTENDS Naturals, SequencesExt

CONSTANT Size  \* the nodes are 1..Size

VARIABLES
    parents,   \* per node: its parents, as the database gives them
    setObjects,\* the copies to set: [of, parents], parents as <<n, copied>>
    stored,    \* the copies that were set
    copyReply  \* "none", "reading", "setting", "done" or "error"

vars == <<parents, setObjects, stored, copyReply>>

Nodes == 1..Size

Init ==
    /\ parents = [n \in Nodes |-> {}]
    /\ setObjects = <<>> /\ stored = {} /\ copyReply = "none"

Children(n) == {m \in Nodes : n \in parents[m]}

\* Descendants of 1; those that no path from 1 reaches are no part of it.
Below[ns \in SUBSET Nodes] ==
    LET more == ns \cup UNION {Children(n) : n \in ns}
    IN IF more = ns THEN ns ELSE Below[more]
Tree == Below[{1}]
-----------------------------------------------------------------------------
\* acc: the nodes whose copy has an id, and the copies as they are made.
Pushed(acc, i, p) == [acc EXCEPT !.objects[i].parents = Append(@, p)]

\* Mutant: a child is copied again under every parent.
ChildrenToCopyAll(acc, n) == Children(n)

\* The children that have no copy yet.
ChildrenToCopy(acc, n) == Children(n) \ acc.added

Copies == [added : SUBSET Nodes,
           objects : Seq([of : Nodes, parents : Seq((Nodes \cup {0}) \X BOOLEAN)])]

CopyIt[acc \in Copies, n \in Nodes, topLevel \in BOOLEAN] ==
    LET i == Len(acc.objects) + 1
        begun == [added |-> acc.added \cup {n},
                  objects |-> Append(acc.objects, [of |-> n, parents |-> <<>>])]
        \* A parent in the tree that has no copy yet is copied first.
        WithParent(a, p) ==
            IF p \in a.added THEN Pushed(a, i, <<p, TRUE>>)
            ELSE IF p \in Tree THEN Pushed(CopyIt[a, p, FALSE], i, <<p, TRUE>>)
            ELSE Pushed(a, i, <<p, FALSE>>)
        WithChild(a, c) ==
            IF c \in ChildrenToCopy(a, n) THEN CopyIt[a, c, FALSE] ELSE a
        parented == IF topLevel
                    THEN [begun EXCEPT !.objects[i].parents =
                              [k \in DOMAIN SetToSeq(parents[n]) |->
                                   <<SetToSeq(parents[n])[k], FALSE>>]]
                    ELSE FoldLeft(WithParent, begun, SetToSeq(parents[n]))
    IN FoldLeft(WithChild, parented, SetToSeq(Children(n)))
-----------------------------------------------------------------------------
\* The request is made while the database holds some tree.
CopyRequest ==
    /\ copyReply = "none" /\ copyReply' = "reading"
    /\ \E above \in [Nodes -> SUBSET (0..(Size - 1))] :
        /\ \A n \in Nodes : \A p \in above[n] : p < n
        /\ parents' = above
    /\ UNCHANGED <<setObjects, stored>>

\* The database answers: deep also reads the descendants.
CopyRead(deep) ==
    /\ copyReply = "reading" /\ copyReply' = "setting"
    /\ setObjects' =
           IF deep THEN CopyIt[[added |-> {}, objects |-> <<>>], 1, TRUE].objects
           ELSE <<[of |-> 1, parents |-> [k \in DOMAIN SetToSeq(parents[1]) |->
                                              <<SetToSeq(parents[1])[k], FALSE>>]]>>
    /\ UNCHANGED <<parents, stored>>

CopyReadFails ==
    /\ copyReply = "reading" /\ copyReply' = "error"
    /\ UNCHANGED <<parents, setObjects, stored>>

\* One set() after another succeeds; the reply waits for all of them.
CopySet(i) ==
    /\ copyReply \in {"setting", "error"}
    /\ i \in DOMAIN setObjects \ stored
    /\ \A j \in DOMAIN setObjects : j < i => j \in stored
    /\ stored' = stored \cup {i}
    /\ copyReply' = IF copyReply = "setting" /\ stored' = DOMAIN setObjects
                    THEN "done" ELSE copyReply
    /\ UNCHANGED <<parents, setObjects>>

\* A set() fails: the caller is told at once, what was set stays.
CopySetFails ==
    /\ copyReply = "setting" /\ copyReply' = "error"
    /\ UNCHANGED <<parents, setObjects, stored>>

Next ==
    \/ CopyRequest \/ CopyReadFails \/ CopySetFails
    \/ \E deep \in BOOLEAN : CopyRead(deep)
    \/ \E i \in 1..(Size + 1) : CopySet(i)

Spec == Init /\ [][Next]_vars
-----------------------------------------------------------------------------
(***************************************************************************)
(* Properties.                                                             *)
(***************************************************************************)
\* A deep copy has the shape of the tree: every node is copied once, and the
\* copy of a node below the first has the copies of its parents for parents,
\* and the parents themselves where they are outside.
ShapeKept ==
    copyReply = "done" =>
        LET deep == Len(setObjects) > 1 \/ Tree = {1} IN
        /\ deep => {setObjects[i].of : i \in DOMAIN setObjects} = Tree
        /\ \A i, j \in DOMAIN setObjects : setObjects[i].of = setObjects[j].of => i = j
        /\ \A i \in DOMAIN setObjects : LET o == setObjects[i] IN
               /\ ToSet(o.parents) = {<<p, o.of # 1 /\ p \in Tree>> : p \in parents[o.of]}
               /\ Len(o.parents) = Cardinality(parents[o.of])
=============================================================================
