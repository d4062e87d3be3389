------------------------------ MODULE XmlTree ------------------------------
(***************************************************************************)
(* The document tree of the XML library (lib/tinyxml.cpp).  A node has     *)
(* pointers to its parent, its first and last child and its neighbours;    *)
(* the operations relink them, clone whole trees and delete them.  kids is *)
(* what the pointers are to mean: the sequence of children of every node.  *)
(***************************************************************************)
EXTENDS Integers, Sequences, FiniteSets, SequencesExt, FiniteSetsExt

CONSTANTS
    MaxNodes,       \* the nodes of the heap, the document included
    Values,         \* element names and texts
    Keys,           \* names of attributes
    Elements        \* the values that are names of elements; the others are texts

VARIABLES
    heap,           \* heap[n]: a node, or Free
    kids,           \* kids[n]: the children of n, in order
    copied          \* the last clone: <<original, clone>>, or <<>>

vars == <<heap, kids, copied>>

Null == 0
Doc == 1
Nodes == 1 .. MaxNodes
Times == [i \in Nodes |-> i]      \* enough rounds for any loop over a list
Made(type, v) == [type |-> type, value |-> v, parent |-> Null, first |-> Null, last |-> Null,
                  prev |-> Null, next |-> Null, attrs |-> <<>>]
Free == Made("free", "")

Init ==
    /\ heap = [n \in Nodes |-> IF n = Doc THEN Made("document", "") ELSE Free]
    /\ kids = [n \in Nodes |-> <<>>]
    /\ copied = <<>>

Live == {n \in Nodes : heap[n].type /= "free"}
Room(h) == {n \in Nodes : h[n].type = "free"}
TypeOf(v) == IF v \in Elements THEN "element" ELSE "text"

-----------------------------------------------------------------------------
(* Operations on a heap *)

\* TiXmlNode::LinkEndChild
LinkLast(h, p, n) ==
    LET l == h[p].last
        g == [h EXCEPT ![n].parent = p, ![n].prev = l, ![n].next = Null, ![p].last = n]
    IN IF l = Null THEN [g EXCEPT ![p].first = n] ELSE [g EXCEPT ![l].next = n]

\* The children of p, along the pointers
Walk(h, p) ==
    LET Step(s, i) == IF Last(s) = Null THEN s ELSE Append(s, h[Last(s)].next)
        all == FoldLeft(Step, <<h[p].first>>, Times)
    IN IF Last(all) = Null THEN Front(all) ELSE all

\* TiXmlElement::CopyTo: the attributes one by one
CopyAttributes(a) == a

\* Clone and CopyTo: a copy of n and of its children, in free nodes
RECURSIVE CloneTo(_, _)
CloneTo(h, n) ==
    LET c == Min(Room(h))
        g == [h EXCEPT ![c] = [Made(h[n].type, h[n].value) EXCEPT !.attrs = CopyAttributes(h[n].attrs)]]
        Child(s, k) == LET t == CloneTo(s.h, k)
                       IN [h |-> LinkLast(t.h, c, t.n), n |-> s.n, ks |-> [t.ks EXCEPT ![c] = Append(s.ks[c], t.n)]]
    IN FoldLeft(Child, [h |-> g, n |-> c, ks |-> [m \in Nodes |-> <<>>]], Walk(h, n))

\* The nodes of the tree below n
RECURSIVE Below(_, _)
Below(h, n) == {n} \cup UNION {Below(h, k) : k \in ToSet(Walk(h, n))}

Size(n) == Cardinality(Below(heap, n))

\* ~TiXmlNode: the node with everything below it
Delete(h, n) == [m \in Nodes |-> IF m \in Below(h, n) THEN Free ELSE h[m]]

\* The children of the nodes of a clone are the clones of their children.
WithClone(ks, h, c) == [n \in Nodes |-> IF n \in Below(h, c) THEN Walk(h, n) ELSE ks[n]]

-----------------------------------------------------------------------------
(* What an application does with a tree *)

New(v) ==
    /\ Room(heap) /= {}
    /\ heap' = [heap EXCEPT ![Min(Room(heap))] = Made(TypeOf(v), v)]
    /\ copied' = <<>>
    /\ UNCHANGED kids

Parents == {n \in Live : heap[n].type \in {"document", "element"}}

LinkEndChild(p, n) ==
    /\ p \in Parents /\ n \in Live \ {Doc} /\ heap[n].parent = Null /\ p \notin Below(heap, n)
    /\ heap' = LinkLast(heap, p, n)
    /\ kids' = [kids EXCEPT ![p] = Append(@, n)]
    /\ copied' = <<>>

\* A clone that is not linked yet; a document is never a child.
Clonable(n) == n \in Live \ {Doc} /\ Size(n) <= Cardinality(Room(heap))

InsertEndChild(p, n) ==
    /\ p \in Parents /\ Clonable(n)
    /\ LET t == CloneTo(heap, n)
       IN /\ heap' = LinkLast(t.h, p, t.n)
          /\ kids' = [WithClone(kids, t.h, t.n) EXCEPT ![p] = Append(@, t.n)]
          /\ copied' = <<n, t.n>>

Before(h, p, b, c) ==
    LET g == [h EXCEPT ![c].parent = p, ![c].next = b, ![c].prev = h[b].prev, ![b].prev = c]
    IN IF h[b].prev /= Null THEN [g EXCEPT ![h[b].prev].next = c] ELSE [g EXCEPT ![p].first = c]

InsertBeforeChild(p, b, n) ==
    /\ b \in Live /\ heap[b].parent = p /\ p /= Null /\ Clonable(n)
    /\ LET t == CloneTo(heap, n)
       IN /\ heap' = Before(t.h, p, b, t.n)
          /\ kids' = [WithClone(kids, t.h, t.n) EXCEPT ![p] = InsertAt(@, SelectInSeq(@, LAMBDA x : x = b), t.n)]
          /\ copied' = <<n, t.n>>

After(h, p, a, c) ==
    LET g == [h EXCEPT ![c].parent = p, ![c].prev = a, ![c].next = h[a].next, ![a].next = c]
    IN IF h[a].next /= Null THEN [g EXCEPT ![h[a].next].prev = c] ELSE [g EXCEPT ![p].last = c]

InsertAfterChild(p, a, n) ==
    /\ a \in Live /\ heap[a].parent = p /\ p /= Null /\ Clonable(n)
    /\ LET t == CloneTo(heap, n)
       IN /\ heap' = After(t.h, p, a, t.n)
          /\ kids' = [WithClone(kids, t.h, t.n) EXCEPT ![p] = InsertAt(@, SelectInSeq(@, LAMBDA x : x = a) + 1, t.n)]
          /\ copied' = <<n, t.n>>

Replaced(h, p, r, c) ==
    LET g == [h EXCEPT ![c].next = h[r].next, ![c].prev = h[r].prev]
        a == IF h[r].next /= Null THEN [g EXCEPT ![h[r].next].prev = c] ELSE [g EXCEPT ![p].last = c]
        b == IF h[r].prev /= Null THEN [a EXCEPT ![h[r].prev].next = c] ELSE [a EXCEPT ![p].first = c]
    IN [Delete(b, r) EXCEPT ![c].parent = p]

ReplaceChild(p, r, n) ==
    /\ r \in Live /\ heap[r].parent = p /\ p /= Null /\ Clonable(n)
    /\ LET t == CloneTo(heap, n)
           gone == Below(heap, r)
           ks == [WithClone(kids, t.h, t.n) EXCEPT ![p] = [i \in DOMAIN @ |-> IF @[i] = r THEN t.n ELSE @[i]]]
       IN /\ heap' = Replaced(t.h, p, r, t.n)
          /\ kids' = [m \in Nodes |-> IF m \in gone THEN <<>> ELSE ks[m]]
    /\ copied' = <<>>

\* Mutation: the last child is not corrected.
Unlink_last(h, p, r) ==
    LET g == IF h[r].next /= Null THEN [h EXCEPT ![h[r].next].prev = h[r].prev] ELSE h
    IN IF h[r].prev /= Null THEN [g EXCEPT ![h[r].prev].next = h[r].next] ELSE [g EXCEPT ![p].first = h[r].next]

Unlink(h, p, r) ==
    LET g == IF h[r].next /= Null THEN [h EXCEPT ![h[r].next].prev = h[r].prev] ELSE [h EXCEPT ![p].last = h[r].prev]
    IN IF h[r].prev /= Null THEN [g EXCEPT ![h[r].prev].next = h[r].next] ELSE [g EXCEPT ![p].first = h[r].next]

RemoveChild(p, r) ==
    /\ r \in Live /\ heap[r].parent = p /\ p /= Null
    /\ heap' = Delete(Unlink(heap, p, r), r)
    /\ kids' = [m \in Nodes |-> IF m \in Below(heap, r) THEN <<>> ELSE IF m = p THEN Remove(kids[p], r) ELSE kids[m]]
    /\ copied' = <<>>

Clear(p) ==
    /\ p \in Parents /\ heap[p].first /= Null
    /\ heap' = [m \in Nodes |-> IF m \in Below(heap, p) \ {p} THEN Free
                                ELSE IF m = p THEN [heap[p] EXCEPT !.first = Null, !.last = Null] ELSE heap[m]]
    /\ kids' = [m \in Nodes |-> IF m \in Below(heap, p) THEN <<>> ELSE kids[m]]
    /\ copied' = <<>>

\* TiXmlAttributeSet::FindOrCreate and Add, Find and Remove
SetAttribute(n, k, v) ==
    /\ n \in Live /\ heap[n].type = "element"
    /\ LET i == SelectInSeq(heap[n].attrs, LAMBDA a : a[1] = k)
       IN heap' = [heap EXCEPT ![n].attrs = IF i = 0 THEN Append(@, <<k, v>>) ELSE [@ EXCEPT ![i] = <<k, v>>]]
    /\ copied' = <<>>
    /\ UNCHANGED kids

RemoveAttribute(n, k) ==
    /\ n \in Live /\ \E i \in DOMAIN heap[n].attrs : heap[n].attrs[i][1] = k
    /\ heap' = [heap EXCEPT ![n].attrs = SelectSeq(@, LAMBDA a : a[1] /= k)]
    /\ copied' = <<>>
    /\ UNCHANGED kids

Next ==
    \/ \E v \in Values : New(v)
    \/ \E p, n \in Nodes : LinkEndChild(p, n) \/ InsertEndChild(p, n) \/ RemoveChild(p, n)
    \/ \E p, b, n \in Nodes : InsertBeforeChild(p, b, n) \/ InsertAfterChild(p, b, n) \/ ReplaceChild(p, b, n)
    \/ \E p \in Nodes : Clear(p)
    \/ \E n \in Nodes, k \in Keys : SetAttribute(n, k, "1") \/ RemoveAttribute(n, k)

Spec == Init /\ [][Next]_vars

-----------------------------------------------------------------------------
(* Looking at a tree: what the loops over next and prev return *)

\* FirstChild(value), LastChild(value), NextSibling(value), PreviousSibling(value)
Seek(n, dir, v) ==
    FoldLeft(LAMBDA m, i : IF m = Null THEN m ELSE IF heap[m].value = v THEN m
                           ELSE IF dir = "next" THEN heap[m].next ELSE heap[m].prev, n, Times)

FirstChild(p, v) == Seek(heap[p].first, "next", v)
LastChild(p, v) == Seek(heap[p].last, "prev", v)

NextSibling(n, v) == Seek(heap[n].next, "next", v)
PreviousSibling(n, v) == Seek(heap[n].prev, "prev", v)

\* TiXmlHandle::Child(value, count)
HandleChild(p, v, count) ==
    FoldLeft(LAMBDA m, i : IF m = Null THEN m ELSE NextSibling(m, v), FirstChild(p, v), SubSeq(Times, 1, count))

\* FirstChildElement() and NextSiblingElement(): skip what is no element
SkipTexts(n) ==
    FoldLeft(LAMBDA m, i : IF m = Null THEN m ELSE IF heap[m].type = "element" THEN m ELSE heap[m].next, n, Times)

FirstChildElement(p) == SkipTexts(heap[p].first)
NextSiblingElement(n) == SkipTexts(heap[n].next)

\* TiXmlHandle::ChildElement(count)
HandleChildElement(p, count) ==
    FoldLeft(LAMBDA m, i : IF m = Null THEN m ELSE NextSiblingElement(m), FirstChildElement(p), SubSeq(Times, 1, count))

-----------------------------------------------------------------------------
(* Properties *)

\* The pointers of every node say what its children are, in both directions, and
\* no pointer leads to a node that was deleted.
Linked ==
    \A p \in Live :
        /\ Walk(heap, p) = kids[p]
        /\ heap[p].last = (IF kids[p] = <<>> THEN Null ELSE Last(kids[p]))
        /\ \A i \in DOMAIN kids[p] :
              /\ kids[p][i] \in Live
              /\ heap[kids[p][i]].parent = p
              /\ heap[kids[p][i]].prev = (IF i = 1 THEN Null ELSE kids[p][i - 1])

RECURSIVE Alike(_, _)
Alike(m, n) ==
    /\ heap[m].type = heap[n].type /\ heap[m].value = heap[n].value /\ heap[m].attrs = heap[n].attrs
    /\ Len(kids[m]) = Len(kids[n])
    /\ \A i \in DOMAIN kids[m] : Alike(kids[m][i], kids[n][i])

\* A clone is a tree like its original, unless it was put into it, and shares no
\* node with it.
CloneAlike ==
    copied /= <<>> =>
        /\ copied[2] \notin Below(heap, copied[1]) => Alike(copied[1], copied[2])
        /\ copied[1] \notin Below(heap, copied[2])

\* The searches by value and by number find what the sequence of children has, also
\* when they go on from one result to the next, and backwards.
Found(s, k) == IF k + 1 <= Len(s) THEN s[k + 1] ELSE Null
SearchesAgree ==
    \A p \in Live : \A v \in Values, k \in 0 .. 2 :
        LET named == SelectSeq(kids[p], LAMBDA n : heap[n].value = v)
            elements == SelectSeq(kids[p], LAMBDA n : heap[n].type = "element")
        IN /\ HandleChild(p, v, k) = Found(named, k)
           /\ HandleChildElement(p, k) = Found(elements, k)
           /\ LastChild(p, v) = Found(Reverse(named), 0)
           /\ named /= <<>> => PreviousSibling(Last(named), v) = Found(Reverse(named), 1)
=============================================================================
