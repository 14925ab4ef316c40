--------------------------- MODULE DocumentStore ---------------------------
(***************************************************************************)
(* What FileStoreManager promises: a document pushed under an id is what   *)
(* the id names from then on, and once PushEntry has returned every        *)
(* document of the session is there after any restart.  A session that     *)
(* stops early may lose only what was pushed since the last return.        *)
(***************************************************************************)
CONSTANTS Ids, Values, None

VARIABLES
  isOpen,  \* a session is open
  call,    \* "idle", "pushing", "threw": where the session's last call got to
  docs,    \* id -> document, as the session sees them
  saved    \* id -> document, as the next session will see them

vars == <<isOpen, call, docs, saved>>

Empty == [id \in Ids |-> None]

Init ==
  /\ isOpen = FALSE /\ call = "idle"
  /\ docs = Empty
  /\ saved = Empty

OpenSession ==
  /\ ~isOpen
  /\ isOpen' = TRUE
  /\ docs' = saved
  /\ UNCHANGED <<call, saved>>

BeginPush ==
  /\ isOpen /\ call # "pushing"
  /\ call' = "pushing"
  /\ UNCHANGED <<isOpen, docs, saved>>

PushDoc(id, v) ==
  /\ call = "pushing"
  /\ docs' = [docs EXCEPT ![id] = v]
  /\ UNCHANGED <<isOpen, call, saved>>

ReturnFromPush ==
  /\ call = "pushing"
  /\ call' = "idle"
  /\ saved' = docs
  /\ UNCHANGED <<isOpen, docs>>

PushThrows ==
  /\ isOpen
  /\ call' = "threw"
  /\ UNCHANGED <<isOpen, docs, saved>>

EndSession ==
  /\ isOpen
  /\ isOpen' = FALSE /\ call' = "idle"
  /\ docs' = saved
  /\ UNCHANGED saved

DeleteAll ==
  /\ isOpen /\ call # "pushing"
  /\ isOpen' = FALSE /\ call' = "idle"
  /\ docs' = Empty
  /\ saved' = Empty

Next ==
  \/ OpenSession
  \/ BeginPush
  \/ \E id \in Ids, v \in Values : PushDoc(id, v)
  \/ ReturnFromPush
  \/ PushThrows
  \/ EndSession
  \/ DeleteAll

Spec == Init /\ [][Next]_vars
=============================================================================
