----------------------------- MODULE MCAesdChar -----------------------------
(***************************************************************************)
(* Model-checking instances of AesdChar.  Each run has two threads with a  *)
(* file of their own, and picks what they do.                              *)
(***************************************************************************)
EXTENDS AesdChar

CONSTANTS p1, p2, f1, f2, a, b

write(f, d)      == [op |-> "write", file |-> f, data |-> d]
read(f, n)       == [op |-> "read", file |-> f, count |-> n]
lseek(f, o, w)   == [op |-> "llseek", file |-> f, offset |-> o, whence |-> w]
IOCSEEKTO(f, c, o) == [op |-> "seekto", file |-> f,
                       write_cmd |-> c, write_cmd_offset |-> o]
ioctl(f)         == [op |-> "ioctl", file |-> f]

(* Data behind a newline, for the run about the content of the buffer.    *)
OneWriter == p1 :> {write(f1, <<a>>), write(f1, <<Newline, b>>)} @@ p2 :> {}

Seeks(f) == {lseek(f, 1, "SEEK_SET"), lseek(f, -1, "SEEK_CUR"),
             lseek(f, -2, "SEEK_END"), lseek(f, 0, "SEEK_DATA"),
             IOCSEEKTO(f, 0, 2), IOCSEEKTO(f, 1, 0), ioctl(f)}

(* Commands in one write and in two, and every way to move a position.     *)
WriterAndReader == p1 :> {write(f1, <<a>>), write(f1, <<b, Newline>>)}
                   @@ p2 :> Seeks(f2) \cup {read(f2, 1), read(f2, 3)}

(* Two writers, one of which also looks whether there is anything to read. *)
TwoWriters == p1 :> {write(f1, <<a>>), read(f1, 0)}
              @@ p2 :> {write(f2, <<b, Newline>>)}

=============================================================================
