---------------------------- MODULE RelayEvents ----------------------------
(***************************************************************************)
(* The signed events a client can send, as far as the store tells them     *)
(* apart, and the keys under which the unique indexes of App file them.    *)
(* An event is immutable: its id is the hash of everything else            *)
(* (Event::fromStructured recomputes it), so two different events never    *)
(* share an id.                                                            *)
(***************************************************************************)
EXTENDS Integers, Sequences, FiniteSets

CONSTANT Events      \* the events clients and in-process sources may send

(***************************************************************************)
(* Kinds of kinds.h by what the relay does with them: "metadata" is kind 0 *)
(* (replaceable, may claim a NIP-05 name), "replaceable" the other         *)
(* replaceable and parameterized replaceable kinds, "file" kind 1063.      *)
(***************************************************************************)
Kinds == {"regular", "metadata", "replaceable", "ephemeral", "deletion", "file"}

(***************************************************************************)
(* at     created_at                                                       *)
(* slot   the (kind, "d" tag) part of the replaceable key                  *)
(* name   the NIP-05 identifier claimed by a metadata event, "" for none   *)
(* target content of the first "e" tag (deletion)                          *)
(* hash   content of the first "x" tag, ftag: has the tag f = "file" (file)*)
(***************************************************************************)
EventType == [id : STRING, author : STRING, kind : Kinds, at : Nat,
              slot : STRING, name : STRING, target : STRING,
              hash : STRING, ftag : BOOLEAN]

\* Events are well typed and the id determines the event.
ASSUME EventsAssumption ==
  /\ Events \subseteq EventType
  /\ \A e, f \in Events : e.id = f.id => e = f

\* The key IndexByAuthorKindFn emits: none unless the kind is replaceable.
IndexByAuthorKind(e) ==
  IF e.kind \in {"metadata", "replaceable"}
  THEN {<<"replaceable", e.author, e.kind, e.slot>>}
  ELSE {}

\* The key IndexNip05Fn emits: only a metadata event that claims a name.
IndexNip05(e) ==
  IF e.kind = "metadata" /\ e.name # "" THEN {<<"nip05", e.name>>} ELSE {}

\* Every unique key an event occupies while it is stored.
UniqueKeys(e) == {<<"id", e.id>>} \cup IndexByAuthorKind(e) \cup IndexNip05(e)

\* IndexAttachmentFn emits a reference row for a file event tagged f = "file".
References(e, h) == e.kind = "file" /\ e.ftag /\ e.hash = h

\* Events e and f are versions of the same replaceable event.
SameReplaceable(e, f) == IndexByAuthorKind(e) \cap IndexByAuthorKind(f) # {}

\* A stored event old may leave the store because event new enters it.
MayReplace(new, old) ==
  \/ SameReplaceable(new, old) /\ new.at >= old.at
  \/ new.kind = "deletion" /\ new.target = old.id /\ new.author = old.author
=============================================================================
