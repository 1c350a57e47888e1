------------------------------ MODULE MCUploads ------------------------------
(* One content item, interchangeable uploads, bytes and attachments.        *)
EXTENDS Uploads, TLC

CONSTANT ShortHistory

Symmetry == Permutations(Uploads) \cup Permutations(Digests) \cup Permutations(Assets)

\* Histories with uploads in them are explored to ShortHistory commands, those of
\* the editors alone to MaxVersion.
Bounded ==
  \/ item.version <= ShortHistory
  \/ /\ \A u \in Uploads : upload[u] = NoUpload
     /\ \A a \in Assets : objects[a] = None
     /\ cleaner = AtRest
=============================================================================
