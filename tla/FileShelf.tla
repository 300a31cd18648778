----------------------------- MODULE FileShelf -----------------------------
(***************************************************************************)
(* What the hub promises about published file selections: a selection is   *)
(* put on the shelf whole, it never changes there, and it leaves whole.    *)
(***************************************************************************)
EXTENDS Functions

CONSTANTS Ids, Owners, Contents  \* of one selection: what its files hold

VARIABLE shelf  \* a function from ids to [owner, contents]

Init == shelf = [id \in {} |-> id]

Put(id, owner, contents) ==
  /\ id \notin DOMAIN shelf
  /\ shelf' = [i \in DOMAIN shelf \cup {id} |->
       IF i = id THEN [owner |-> owner, contents |-> contents] ELSE shelf[i]]

Remove(ids) == shelf' = Restrict(shelf, DOMAIN shelf \ ids)

Next ==
  \/ \E id \in Ids, owner \in Owners, contents \in Contents : Put(id, owner, contents)
  \/ \E ids \in SUBSET DOMAIN shelf : Remove(ids)

Spec == Init /\ [][Next]_shelf
=============================================================================
