----------------------------- MODULE AtomicStore ------------------------------
(***************************************************************************)
(* What the file commands promise to a user who shares files between       *)
(* several sessions without removing or renaming them: a store in which    *)
(* every WRITE or UPLOAD takes effect at one instant, every READ returns   *)
(* bytes that were in the file together, at one instant, and a DOWNLOAD    *)
(* does the same with as much of the file as was in it at an earlier       *)
(* instant of the same DOWNLOAD.  There are no locks, no descriptors and   *)
(* no intermediate states here.                                            *)
(***************************************************************************)
EXTENDS Integers, Sequences

CONSTANTS Sessions, Names, Offsets, Payloads

VARIABLES
  file,    \* the files: a function from the names in use to their bytes
  reply    \* session -> the size that its DOWNLOAD has noted, or the reply
           \* that it is about to send

None == [op |-> "none"]

svars == <<file, reply>>

Init ==
  /\ file  = [n \in {} |-> <<>>]
  /\ reply = [s \in Sessions |-> None]

\* CREATE, and also WRITE or UPLOAD to a name that is not in use, at any
\* offset: README.txt says of the offset of "write" that it works only if the
\* file exists, but the handler opens with O_CREAT.
Create(n) ==
  /\ n \notin DOMAIN file
  /\ file' = [m \in DOMAIN file \cup {n} |-> IF m = n THEN <<>> ELSE file[m]]
  /\ UNCHANGED reply

\* d replaces everything from offset 0, and otherwise the bytes it covers.
Written(old, d, off) ==
  LET head == [k \in 1..off |-> IF k <= Len(old) THEN old[k] ELSE 0]
  IN  CASE off = 0             -> d
        [] off > 0 /\ d = <<>> -> old
        [] OTHER               -> head \o d \o SubSeq(old, off + Len(d) + 1, Len(old))

Write(n) ==
  /\ n \in DOMAIN file
  /\ \E d \in Payloads, off \in Offsets :
       file' = [file EXCEPT ![n] = Written(@, d, off)]
  /\ UNCHANGED reply

\* A READ returns everything from its offset on.
Read(s, n) ==
  /\ reply[s] = None
  /\ n \in DOMAIN file
  /\ \E off \in Offsets :
       /\ off < Len(file[n])
       /\ reply' = [reply EXCEPT ![s] =
            [op |-> "read", name |-> n, off |-> off,
             bytes |-> SubSeq(file[n], off + 1, Len(file[n]))]]
  /\ UNCHANGED file

\* A DOWNLOAD notes the size of the file.  Nothing protects this look: in the
\* middle of a write the file may seem to be empty.
Measure(s, n) ==
  /\ reply[s] = None
  /\ n \in DOMAIN file
  /\ \E k \in {0, Len(file[n])} :
       reply' = [reply EXCEPT ![s] = [op |-> "measured", name |-> n, size |-> k]]
  /\ UNCHANGED file

\* Later it returns that many bytes of the file, or all if there are fewer by
\* now.  A file that has grown since is cut off.
Download(s) ==
  /\ reply[s].op = "measured"
  /\ reply[s].name \in DOMAIN file
  /\ LET bytes == file[reply[s].name]
         k == IF reply[s].size < Len(bytes) THEN reply[s].size ELSE Len(bytes)
     IN  reply' = [reply EXCEPT ![s] =
           [op |-> "download", name |-> reply[s].name, off |-> 0,
            bytes |-> SubSeq(bytes, 1, k)]]
  /\ UNCHANGED file

\* The reply is sent, or a DOWNLOAD fails after its look at the size.
Send(s) ==
  /\ reply[s] # None
  /\ reply' = [reply EXCEPT ![s] = None]
  /\ UNCHANGED file

Next ==
  \/ \E n \in Names : Create(n) \/ Write(n)
  \/ \E s \in Sessions, n \in Names : Read(s, n) \/ Measure(s, n)
  \/ \E s \in Sessions : Download(s) \/ Send(s)

Spec == Init /\ [][Next]_svars
=============================================================================
