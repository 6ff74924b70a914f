---------------------------- MODULE VersionedFiles ----------------------------
(***************************************************************************)
(* What the storage tree promises its clients, seen from outside: at every *)
(* moment a path holds one whole file, a folder or nothing; a file gives   *)
(* way to another only when the history of the path has it; a deletion     *)
(* enters the history in the same step; and a crash is no step at all.     *)
(***************************************************************************)
CONSTANTS
  Paths,     \* names of the tree
  Contents,  \* whole files
  Empty,     \* what a path without a file holds
  Folder,    \* a directory
  Scratch    \* paths whose deletions are not retained

VARIABLES
  current,   \* current[q]: what a client that opens q gets
  history,   \* the pairs <<q, c>> such that a past of path q is retained
  promised   \* contents whose upload was acknowledged

view == <<current, history, promised>>

TreeInit ==
  /\ current \in [Paths -> Contents \cup {Empty, Folder}]
  /\ history = {}
  /\ promised = {current[q] : q \in Paths} \cap Contents

\* A version of q is taken; what follows may still fail.
Retain(q) ==
  /\ current[q] # Empty
  /\ history' = history \cup {<<q, current[q]>>}
  /\ UNCHANGED <<current, promised>>

\* An upload appears at q: the place was free, or held a file that is retained.
Replace(q, c) ==
  /\ c \notin promised
  /\ current[q] # Folder
  /\ current[q] = Empty \/ <<q, current[q]>> \in history
  /\ current' = [current EXCEPT ![q] = c]
  /\ promised' = promised \cup {c}
  /\ UNCHANGED history

\* An upload that may not replace appears at q, to be confirmed or withdrawn.
Create(q, c) ==
  /\ c \notin promised
  /\ current[q] = Empty
  /\ current' = [current EXCEPT ![q] = c]
  /\ UNCHANGED <<history, promised>>

Confirm(c) ==
  /\ promised' = promised \cup {c}
  /\ UNCHANGED <<current, history>>

\* Only what was never confirmed can be taken back, or a folder made since.
Withdraw(q) ==
  /\ current[q] \notin promised
  /\ current' = [current EXCEPT ![q] = Empty]
  /\ UNCHANGED <<history, promised>>

Delete(q) ==
  /\ current[q] # Empty
  /\ history' = history \cup {<<q, current[q]>>}
  /\ current' = [current EXCEPT ![q] = Empty]
  /\ UNCHANGED promised

Discard(q) ==
  /\ q \in Scratch
  /\ current' = [current EXCEPT ![q] = Empty]
  /\ UNCHANGED <<history, promised>>

MakeFolder(q) ==
  /\ current[q] = Empty
  /\ current' = [current EXCEPT ![q] = Folder]
  /\ UNCHANGED <<history, promised>>

TreeNext ==
  \/ \E q \in Paths : \/ Retain(q) \/ Withdraw(q) \/ Delete(q)
                      \/ Discard(q) \/ MakeFolder(q)
                      \/ \E c \in Contents : Replace(q, c) \/ Create(q, c)
  \/ \E c \in Contents : Confirm(c)

TreeSpec == TreeInit /\ [][TreeNext]_view
=============================================================================
