------------------------- MODULE FileServerRefinement -------------------------
(***************************************************************************)
(* FileServer, without DELETE and MOVE, implements AtomicStore.            *)
(*                                                                         *)
(* A WRITE at offset 0 takes two steps, ftruncate and write, and it is the *)
(* first that makes it happen in the store: nobody may look at the empty   *)
(* file in between.  Every other WRITE happens at its write step.          *)
(***************************************************************************)
EXTENDS FileServer

Overwriting(i) ==
  {s \in Sessions : pc[s] = "write" /\ ifd[s] = i /\ Offset(s) = 0}

ContentSeen(i) ==
  IF Overwriting(i) = {} THEN node[i].content
  ELSE data[CHOOSE s \in Overwriting(i) : TRUE]

StoredFiles ==
  [n \in {m \in DOMAIN dir : IsFile(m)} |-> ContentSeen(dir[n])]

\* The size of a DOWNLOAD is noted from stat on, and used by read.
Measured(s) == req[s].op = "download" /\ pc[s] \in {"open", "lock", "fsopen", "read"}

ReplyOf(s) ==
  CASE pc[s] \in {"reply", "send"} ->
         [op |-> req[s].op, name |-> req[s].path, off |-> Offset(s),
          bytes |-> data[s]]
    [] Measured(s) ->
         [op |-> "measured", name |-> req[s].path, size |-> size[s]]
    [] OTHER -> [op |-> "none"]

Store == INSTANCE AtomicStore WITH
           Names   <- {r.path : r \in Requests},
           Offsets <- {0} \cup {r.off : r \in Requests},
           file    <- StoredFiles,
           reply   <- [s \in Sessions |-> ReplyOf(s)]

(* The locks make the two-step overwrite, and the READ whose size is taken *)
(* in a step of its own, look like single steps to all other sessions: the *)
(* server implements the store.  A reader that is let in between ftruncate *)
(* and write, or a second writer, has no counterpart there.  Nor has a     *)
(* DOWNLOAD that is cut anywhere but at the size it found, or at 0.        *)
ImplementsAtomicStore == Store!Spec
=============================================================================
