----------------------------- MODULE ObjectStore -----------------------------
(***************************************************************************)
(* What the storage allocator promises the rest of the system: objects     *)
(* with an identity and some fields, reached from a few root fields, that  *)
(* last as they are for as long as they can be reached.  Where an object   *)
(* is in memory, and when a collection moves it, cannot be seen.           *)
(***************************************************************************)
EXTENDS Integers, FiniteSets

CONSTANTS
    Roots,        \* how many root fields there are
    Ids,          \* identities of objects
    MaxFields     \* most fields an object has

VARIABLES
    root,         \* the object each root field points to, or Nil
    object        \* the reachable objects: id -> (field -> id or Nil)

Nil == 0

Init ==
    /\ root = [r \in 1 .. Roots |-> Nil]
    /\ object = [id \in {} |-> <<>>]

-----------------------------------------------------------------------------
Pointees(f) == {f[i] : i \in DOMAIN f} \ {Nil}

(* The objects of obj that can be reached from the fields of rt.           *)
Reachable(rt, obj) ==
    LET within[k \in Nat] ==
            IF k = 0 THEN Pointees(rt)
            ELSE within[k - 1]
                 \cup UNION {Pointees(obj[id]) : id \in within[k - 1]}
    IN  within[Cardinality(DOMAIN obj)]

(* The roots and fields change; what cannot be reached any more is gone.   *)
Become(rt, obj) ==
    /\ root' = rt
    /\ object' = [id \in Reachable(rt, obj) |-> obj[id]]

(* A new object, whose fields are some of the roots.                       *)
New(r) ==
    \E id \in Ids \ DOMAIN object, n \in 0 .. MaxFields :
        \E f \in [1 .. n -> Pointees(root) \cup {Nil}] :
            Become([root EXCEPT ![r] = id],
                   [j \in DOMAIN object \cup {id} |->
                        IF j = id THEN f ELSE object[j]])


(* Field i of the object in root r := root q.                              *)
Store(r, i, q) ==
    /\ root[r] # Nil /\ i \in DOMAIN object[root[r]]
    /\ Become(root, [object EXCEPT ![root[r]][i] = root[q]])

(* Root q := field i of the object in root r.                              *)
Load(r, i, q) ==
    /\ root[r] # Nil /\ i \in DOMAIN object[root[r]]
    /\ Become([root EXCEPT ![q] = object[root[r]][i]], object)

Next ==
    \E r \in 1 .. Roots :
        \/ New(r)
        \/ Become([root EXCEPT ![r] = Nil], object)
        \/ \E q \in 1 .. Roots, i \in 1 .. MaxFields : Store(r, i, q) \/ Load(r, i, q)

Spec == Init /\ [][Next]_<<root, object>>
=============================================================================
