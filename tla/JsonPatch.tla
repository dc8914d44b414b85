----------------------------- MODULE JsonPatch -----------------------------
(***************************************************************************)
(* JSON documents and the JSON Patch (RFC 6902) operations on them.        *)
(*                                                                         *)
(* A document is a string (any leaf), a sequence (an array) or a function  *)
(* from attribute names to documents (an object).  A path is a sequence of *)
(* steps: the member of an object with a name, the entry of an array with  *)
(* an index, or the end of an array.  An optional thing, which the library *)
(* keeps behind a pointer that may be NULL, is a sequence of at most one   *)
(* element.                                                                *)
(*                                                                         *)
(* The first part is the library's json-patch.c, the second the peer that  *)
(* applies what it is sent.                                                *)
(***************************************************************************)
EXTENDS Integers, Sequences, SequencesExt, TLC

Opt(S) == {<<>>} \cup {<<v>> : v \in S}

\* An object with the members of f that are present.
Obj(f) == [n \in {m \in DOMAIN f : Len(f[m]) = 1} |-> f[n][1]]

\* A document with something in a place, and without it.
Put(doc, place, json) ==
    [n \in DOMAIN doc \cup {place} |-> IF n = place THEN json ELSE doc[n]]
Without(doc, place) == [n \in DOMAIN doc \ {place} |-> doc[n]]

\* An array member, left out when it is empty.
NonEmpty(list) == IF Len(list) = 0 THEN <<>> ELSE <<list>>

\* The image of a list or of an optional value.
Mapped(list, F(_)) == [i \in DOMAIN list |-> F(list[i])]

(***************************************************************************)
(* Patch items.  A removal has no value; an item "fault" stands for the    *)
(* null pointer that the program runs into while it makes the list.        *)
(***************************************************************************)
Member(name) == <<"member", name>>
Nth(index) == <<"nth", index>>
End == <<"end", 0>>

Item(op, path, value) == [op |-> op, path |-> path, value |-> value]

AddItem(path, json) == Item("add", path, <<json>>)
ReplaceItem(path, json) == Item("replace", path, <<json>>)
RemoveItem(path) == Item("remove", path, <<>>)
Fault == Item("fault", <<>>, <<>>)

\* _json_patch_new_copy_with_prefix, whose prefix is an attribute: the copy of
\* an item reads the value of the original, and a removal has none.
WithPrefix(item, name) ==
    IF Len(item.value) = 0 THEN Fault ELSE [item EXCEPT !.path = <<Member(name)>> \o @]

AppendList(items, name) == Mapped(items, LAMBDA item : WithPrefix(item, name))

(***************************************************************************)
(* The peer.  An item that names a place that is not there, other than the *)
(* one to add to, makes the whole patch fail.                              *)
(***************************************************************************)
IsIndex(step) == step[1] # "member"

Position(array, step) == IF step = End THEN Len(array) + 1 ELSE step[2] + 1

Place(doc, step) == IF IsIndex(step) THEN Position(doc, step) ELSE step[2]

There(doc, step) ==
    IF IsIndex(step) THEN Position(doc, step) <= Len(doc) ELSE step[2] \in DOMAIN doc

MayAdd(doc, step) == IsIndex(step) => Position(doc, step) <= Len(doc) + 1

\* The document that is reached after n steps of a path, for each n before the
\* last; nothing when the way ends before.
Way(doc, path) ==
    LET way[n \in 0 .. Len(path) - 1] ==
          IF n = 0 THEN <<doc>>
          ELSE LET at == way[n - 1]
               IN IF at # <<>> /\ There(at[1], path[n])
                  THEN <<at[1][Place(at[1], path[n])]>> ELSE <<>>
    IN way

\* The last step of a path, and the document it is taken in.
LastStep(item) == item.path[Len(item.path)]
Parent(doc, item) == Way(doc, item.path)[Len(item.path) - 1]

Applies(doc, item) ==
    /\ Parent(doc, item) # <<>>
    /\ IF item.op = "add" THEN MayAdd(Parent(doc, item)[1], LastStep(item))
       ELSE There(Parent(doc, item)[1], LastStep(item))


\* The parent with the place that the item names changed.
AtPlace(doc, step, item) ==
    LET place == Place(doc, step)
    IN CASE item.op = "remove" ->
              IF IsIndex(step) THEN RemoveAt(doc, place) ELSE Without(doc, place)
         [] item.op = "add" /\ IsIndex(step) -> InsertAt(doc, place, item.value[1])
         [] OTHER -> Put(doc, place, item.value[1])

\* The parent is changed, and each document in front of it holds the new form
\* of the next.
Applied(doc, item) ==
    LET way == Way(doc, item.path)
        new[n \in 1 .. Len(item.path)] ==
          IF n = Len(item.path) THEN AtPlace(way[n - 1][1], LastStep(item), item)
          ELSE LET at == way[n - 1][1]
               IN [at EXCEPT ![Place(at, item.path[n])] = new[n + 1]]
    IN new[1]

\* The outcome of the first n items of a list: the new document, or nothing
\* when one of them cannot be applied.
After(doc, items) ==
    LET after[n \in 0 .. Len(items)] ==
          IF n = 0 THEN <<doc>>
          ELSE LET d == after[n - 1]
               IN IF d # <<>> /\ Applies(d[1], items[n])
                  THEN <<Applied(d[1], items[n])>> ELSE <<>>
    IN after

Patched(doc, items) == After(doc, items)[Len(items)]
=============================================================================
