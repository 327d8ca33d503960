----------------------------- MODULE MCFileServer -----------------------------
(* Instances of FileServer for TLC: two sessions, or three, of one user and  *)
(* one or two file names.                                                    *)
EXTENDS FileServerRefinement, TLC

CONSTANTS a, b      \* file names

Cmd(op, p) == [op |-> op, path |-> <<p, 0>>, dst |-> <<p, 0>>, off |-> 0,
               size |-> 0, mode |-> {"r", "w"}, kind |-> "file"]

MCPayloads == {<<1>>, <<2, 2>>}

\* Everything about contents that neither removes nor renames, on one file.
SharingRequests ==
  { [Cmd("create", a) EXCEPT !.kind = "dir"],
    [Cmd("read", a) EXCEPT !.off = 1], Cmd("download", a),
    Cmd("write", a), [Cmd("write", a) EXCEPT !.off = 1],
    [Cmd("upload", a) EXCEPT !.size = 2] }

OnePayload == {<<1>>}

\* A command of every locking discipline, on two files; b.lock is also a
\* user's name.  UPLOAD, which is a WRITE at offset 0 here, is in
\* SharingRequests.
AllRequests ==
  { [Cmd("create", a) EXCEPT !.kind = "dir"],
    [Cmd("create", b) EXCEPT !.path = <<b, 1>>, !.kind = "dir"],
    Cmd("read", a), Cmd("download", a),
    Cmd("write", a), [Cmd("chmod", a) EXCEPT !.mode = {"r"}],
    Cmd("delete", a), Cmd("delete", b),
    [Cmd("move", a) EXCEPT !.dst = <<b, 0>>] }

DeletingRequests == {Cmd("write", a), Cmd("delete", a)}

MovingRequests ==
  { Cmd("create", a), Cmd("create", b), [Cmd("move", a) EXCEPT !.dst = <<b, 0>>] }

Symmetry == Permutations(Sessions) \cup Permutations(Inodes)
=============================================================================
