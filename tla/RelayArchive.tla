---------------------------- MODULE RelayArchive ----------------------------
(***************************************************************************)
(* What the relay promises about its archive, with no threads, indexes or  *)
(* document ids: a set of events and a set of file contents.  An event     *)
(* enters only if no unique key is taken, and pushes out only events it    *)
(* may replace.  RelayStore implements this.                               *)
(***************************************************************************)
EXTENDS RelayEvents

VARIABLES stored,    \* events a query can return
          files      \* hashes of the file contents that can be retrieved

avars == <<stored, files>>

Init == stored = {} /\ files = {}

\* Event e is archived in place of the events in gone, alone or together
\* with the content of its file.
Accept(e) ==
  /\ \E gone \in SUBSET stored :
       /\ \A x \in gone : MayReplace(e, x)
       /\ \A x \in stored \ gone : UniqueKeys(x) \cap UniqueKeys(e) = {}
       /\ stored' = (stored \ gone) \cup {e}
  /\ files' \in {files, files \cup {e.hash}}

\* A file content is dropped by the garbage collector.
Collect(h) == files' = files \ {h} /\ UNCHANGED stored

Next == (\E e \in Events : Accept(e)) \/ (\E h \in files : Collect(h))

Spec == Init /\ [][Next]_avars
=============================================================================
