-------------------------- MODULE StoreRefinement --------------------------
(* FileStore implements DocumentStore as long as ids are fresh.                *)
EXTENDS FileStore

IsOpen == session = "open" /\ step # "deleting"

Call ==
  CASE ~IsOpen \/ step = "idle" -> "idle"
    [] IsOpen /\ step = "threw" -> "threw"
    [] OTHER -> "pushing"

SavedDocs ==
  [id \in Ids |-> IF step = "deleting" THEN None
                  ELSE Document(IndexOf(Persisted)[id])]

SessionDocs ==
  IF IsOpen THEN [id \in Ids |-> Document(index[id])] ELSE SavedDocs

Store == INSTANCE DocumentStore
  WITH isOpen <- IsOpen, call <- Call, docs <- SessionDocs, saved <- SavedDocs

(* What a session sees is what was pushed, a restart finds everything pushed *)
(* up to the last PushEntry that returned, and a crash, an exception or a    *)
(* partial copy loses nothing but what came after it.                        *)
ImplementsDocumentStore == Store!Spec
=============================================================================
