------------------------- MODULE AesdSessionProofs --------------------------
(***************************************************************************)
(* What the run of MCAesdSession checks of the locked section for three    *)
(* clients, proved for any number of them and whatever they send.          *)
(***************************************************************************)
EXTENDS AesdSession, SequenceLemmas

SessionInv == /\ DOMAIN pc = Client
              /\ DOMAIN file_desc = Client
              /\ SectionLeftClean

LEMMA InitSession == Init => SessionInv
BY NullAssumption DEF Init, SessionInv, SectionLeftClean, Outside

(* A thread leaves the section: it held the mutex, and nobody does now.    *)
LEMMA LeaveKeeps ==
  ASSUME SessionInv, NEW c \in Client, NEW step \in Outside,
         pc[c] \notin Outside, Leave(c, step)
  PROVE  SessionInv'
<1>1. file_mutex = c /\ c # NULL
  BY NullAssumption DEF SessionInv, SectionLeftClean
<1>2. \A d \in Client : pc[d] \notin Outside => d = c
  BY <1>1 DEF SessionInv, SectionLeftClean
<1>3. /\ pc' = [pc EXCEPT ![c] = step]
      /\ file_desc' = [file_desc EXCEPT ![c] = NULL]
      /\ file_mutex' = NULL
  BY DEF Leave, Goto
<1>. QED  BY <1>1, <1>2, <1>3, NullAssumption DEF SessionInv, SectionLeftClean

(* A thread goes on inside the section, or outside.                        *)
LEMMA InsideKeeps ==
  ASSUME SessionInv, NEW c \in Client, NEW step, NEW position,
         pc[c] \notin Outside, step \notin Outside,
         pc' = [pc EXCEPT ![c] = step],
         file_desc' = [file_desc EXCEPT ![c] = position],
         UNCHANGED file_mutex
  PROVE  SessionInv'
BY DEF SessionInv, SectionLeftClean

LEMMA OutsideKeeps ==
  ASSUME SessionInv, NEW c \in Client, NEW step \in Outside,
         pc[c] \in Outside,
         pc' = [pc EXCEPT ![c] = step],
         UNCHANGED <<file_desc, file_mutex>>
  PROVE  SessionInv'
BY DEF SessionInv, SectionLeftClean

LEMMA LockKeeps ==
  ASSUME SessionInv, NEW c \in Client, NEW from \in Outside, NEW to,
         to \notin Outside, Lock(c, from, to)
  PROVE  SessionInv'
<1>1. pc[c] \in Outside /\ file_mutex = NULL /\ c # NULL
  BY NullAssumption DEF Lock
<1>2. \A d \in Client : pc[d] \in Outside
  BY <1>1, NullAssumption DEF SessionInv, SectionLeftClean
<1>. QED  BY <1>1, <1>2 DEF Lock, Goto, SessionInv, SectionLeftClean

LEMMA OpenKeeps ==
  ASSUME SessionInv, NEW c \in Client, NEW from, NEW to,
         from \notin Outside, to \notin Outside, Open(c, from, to)
  PROVE  SessionInv'
<1>1. pc[c] \notin Outside /\ "cleanup" \in Outside
  BY DEF Open, Outside
<1>2. CASE Leave(c, "cleanup")
  BY <1>1, <1>2, LeaveKeeps
<1>3. CASE ~Leave(c, "cleanup")
  BY <1>1, <1>3, InsideKeeps DEF Open, Goto
<1>. QED  BY <1>2, <1>3

LEMMA ReadKeeps ==
  ASSUME SessionInv, NEW c \in Client, NEW step, NEW next \in Outside,
         step \notin Outside, ReadAndSend(c, step, next)
  PROVE  SessionInv'
<1>1. pc[c] = step
  BY DEF ReadAndSend
<1>2. CASE Leave(c, next)
  BY <1>1, <1>2, LeaveKeeps
<1>3. CASE ~Leave(c, next)
  <2>1. PICK to : file_desc' = [file_desc EXCEPT ![c] = to] /\ UNCHANGED <<file_mutex, pc>>
    BY <1>3 DEF ReadAndSend
  <2>. QED  BY <1>1, <2>1 DEF SessionInv, SectionLeftClean
<1>. QED  BY <1>2, <1>3

LEMMA SessionStep == SessionInv /\ [Next]_vars => SessionInv'
<1>. SUFFICES ASSUME SessionInv, [Next]_vars PROVE SessionInv'
  OBVIOUS
<1>0. CASE UNCHANGED vars
  BY <1>0 DEF vars, SessionInv, SectionLeftClean
<1>t. CASE timestamp_thread
  BY <1>t DEF timestamp_thread, SessionInv, SectionLeftClean
<1>. SUFFICES ASSUME NEW c \in Client, handle_client(c) PROVE SessionInv'
  BY <1>0, <1>t DEF Next
<1>1. CASE Recv(c)
  <2>1. PICK step \in {"lock", "lock_seek", "cleanup"} :
          pc' = [pc EXCEPT ![c] = step] /\ UNCHANGED <<file_desc, file_mutex>>
    BY <1>1 DEF Recv, Goto
  <2>. QED  BY <1>1, <2>1, OutsideKeeps DEF Recv, Outside
<1>2. CASE Hangup(c) \/ Cleanup(c)
  BY <1>2, OutsideKeeps DEF Hangup, Cleanup, Goto, Outside
<1>3. CASE Lock(c, "lock", "open") \/ Lock(c, "lock_seek", "open_seek")
  BY <1>3, LockKeeps DEF Outside
<1>4. CASE \/ Open(c, "open", "write") \/ Open(c, "reopen", "read_back")
           \/ Rewind(c)
  BY <1>4, OpenKeeps DEF Outside, Rewind
<1>5. CASE Write(c)
  <2>1. pc[c] = "write"
    BY <1>5 DEF Write
  <2>2. CASE Leave(c, "cleanup") \/ Leave(c, "recv")
    BY <2>1, <2>2, LeaveKeeps DEF Outside
  <2>3. CASE ~(Leave(c, "cleanup") \/ Leave(c, "recv"))
    <3>1. CASE WriteDevice(c)
      <4>1. /\ pc' = [pc EXCEPT ![c] = "reopen"]
            /\ file_desc' = [file_desc EXCEPT ![c] = NULL]
            /\ UNCHANGED file_mutex
        BY <2>3, <3>1 DEF WriteDevice, Goto
      <4>. QED  BY <2>1, <4>1, InsideKeeps DEF Outside
    <3>2. CASE WriteFile(c)
      <4>1. /\ pc' = [pc EXCEPT ![c] = "rewind"]
            /\ file_desc' = [file_desc EXCEPT ![c] = Len(file')]
            /\ UNCHANGED file_mutex
        BY <2>3, <3>2 DEF WriteFile, Goto
      <4>. QED  BY <2>1, <4>1, InsideKeeps DEF Outside
    <3>. QED  BY <1>5, <3>1, <3>2 DEF Write
  <2>. QED  BY <2>2, <2>3
<1>6. CASE Ioctl(c)
  <2>1. pc[c] = "ioctl"
    BY <1>6 DEF Ioctl
  <2>2. CASE Leave(c, "cleanup")
    BY <2>1, <2>2, LeaveKeeps DEF Outside
  <2>3. CASE ~Leave(c, "cleanup")
    <3>1. PICK position : /\ pc' = [pc EXCEPT ![c] = "read_rest"]
                          /\ file_desc' = [file_desc EXCEPT ![c] = position]
                          /\ UNCHANGED file_mutex
      BY <1>6, <2>3 DEF Ioctl, Goto
    <3>. QED  BY <2>1, <3>1, InsideKeeps DEF Outside
  <2>. QED  BY <2>2, <2>3
<1>7. CASE ReadAndSend(c, "read_back", "cleanup") \/ ReadAndSend(c, "read_rest", "recv")
  BY <1>7, ReadKeeps DEF Outside
<1>8. CASE OpenToSeek(c)
  <2>1. CASE Open(c, "open_seek", "ioctl")
    BY <2>1, OpenKeeps DEF Outside
  <2>2. CASE pc[c] = "open_seek" /\ Leave(c, "recv")
    BY <2>2, LeaveKeeps DEF Outside
  <2>. QED  BY <1>8, <2>1, <2>2 DEF OpenToSeek
<1>. QED  BY <1>1, <1>2, <1>3, <1>4, <1>5, <1>6, <1>7, <1>8 DEF handle_client

(***************************************************************************)
(* A thread that is outside the section holds neither file_mutex nor a     *)
(* descriptor, whichever way out it took (handle_client), in both builds;  *)
(* one that is inside holds the mutex, so that it is alone there.          *)
(***************************************************************************)
THEOREM SectionIsLeftClean == Spec => []SectionLeftClean
<1>1. SessionInv => SectionLeftClean
  BY DEF SessionInv
<1>. QED  BY <1>1, InitSession, SessionStep, PTL DEF Spec
-----------------------------------------------------------------------------

(***************************************************************************)
(* The answers.  What is true of one thread at each place of its section:  *)
(* nothing is sent before it reads back; what it wrote is at the end of    *)
(* the log from then on, which is where the mutex is needed; and what has  *)
(* been sent is the log up to the descriptor's position.                   *)
(***************************************************************************)
BytesOK == /\ unsent \in [Client -> Seq(Symbol)]
           /\ buffer \in [Client -> Seq(Symbol)]
           /\ reply \in [Client -> Seq(Symbol)]
           /\ log \in Seq(Seq(Symbol))
           /\ partial \in Seq(Symbol)
           /\ file \in Seq(Symbol)

ReadsBack(c) == /\ file_desc[c] \in Nat
                /\ file_desc[c] <= Len(Content)
                /\ reply[c] = SubSeq(Content, 1, file_desc[c])

ReadsRest(c) == LET x == buffer[c][3]
                    y == buffer[c][4]
                IN  /\ Exists(x, y)
                    /\ file_desc[c] \in Nat
                    /\ StartOf(x) + y <= file_desc[c]
                    /\ file_desc[c] <= Len(Content)
                    /\ reply[c] = SubSeq(Content, StartOf(x) + y + 1, file_desc[c])

Answering(c) ==
  /\ pc[c] \notin {"read_back", "read_rest"} => reply[c] = <<>>
  /\ pc[c] \in {"reopen", "rewind", "read_back"} => IsSuffix(buffer[c], Content)
  /\ pc[c] \in {"lock_seek", "open_seek", "ioctl", "read_rest"} => Parses(buffer[c])
  /\ pc[c] \in {"ioctl", "read_rest"} => useDevice
  /\ pc[c] = "read_back" => ReadsBack(c)
  /\ pc[c] = "read_rest" => ReadsRest(c)

AnswerInv == SessionInv /\ BytesOK /\ \A c \in Client : Answering(c)

LEMMA InitAnswers == Init => AnswerInv
<1>. SUFFICES ASSUME Init PROVE AnswerInv
  OBVIOUS
<1>1. SessionInv
  BY InitSession
<1>2. BytesOK
  <2>1. unsent \in [Client -> Seq(Symbol)]
    BY ScriptAssumption DEF Init
  <2>2. /\ buffer \in [Client -> Seq(Symbol)] /\ reply \in [Client -> Seq(Symbol)]
        /\ log \in Seq(Seq(Symbol)) /\ partial \in Seq(Symbol) /\ file \in Seq(Symbol)
    BY DEF Init
  <2>. QED  BY <2>1, <2>2 DEF BytesOK
<1>3. \A c \in Client : Answering(c)
  BY DEF Init, Answering
<1>. QED  BY <1>1, <1>2, <1>3 DEF AnswerInv

(* The bytes a piece of a sequence has are those of the sequence.          *)
LEMMA PieceType ==
  ASSUME NEW S, NEW s, s \in Seq(S), NEW n \in 0..Len(s)
  PROVE  SubSeq(s, 1, n) \in Seq(S) /\ SubSeq(s, n + 1, Len(s)) \in Seq(S)
OBVIOUS

LEMMA PushedType ==
  ASSUME BytesOK, NEW e, e \in Seq(Symbol)
  PROVE  CommandLog!Pushed(e) \in Seq(Seq(Symbol))
<1>1. log \in Seq(Seq(Symbol)) /\ Capacity \in Nat /\ Capacity > 0
  BY SizeAssumption DEF BytesOK
<1>2. CASE Len(log) = Capacity
  <2>1. Tail(log) \in Seq(Seq(Symbol))
    BY <1>1, <1>2
  <2>. QED  BY <2>1, <1>2 DEF CommandLog!Pushed
<1>3. CASE Len(log) # Capacity
  BY <1>1, <1>3 DEF CommandLog!Pushed
<1>. QED  BY <1>2, <1>3

(* The flat content ends with what was pushed.                             *)
LEMMA PushedIsLast ==
  ASSUME BytesOK, NEW e, e \in Seq(Symbol)
  PROVE  \E head : head \in Seq(Symbol) /\ FlattenSeq(CommandLog!Pushed(e)) = head \o e
<1>1. log \in Seq(Seq(Symbol)) /\ Capacity \in Nat /\ Capacity > 0
  BY SizeAssumption DEF BytesOK
<1>2. PICK q : q \in Seq(Seq(Symbol)) /\ CommandLog!Pushed(e) = Append(q, e)
  <2>1. CASE Len(log) = Capacity
    <3>1. Tail(log) \in Seq(Seq(Symbol))
      BY <1>1, <2>1
    <3>. QED  BY <3>1, <2>1 DEF CommandLog!Pushed
  <2>2. CASE Len(log) # Capacity
    BY <1>1, <2>2 DEF CommandLog!Pushed
  <2>. QED  BY <2>1, <2>2
<1>3. q \in Seq(Seq(Symbol)) /\ e \in Seq(Symbol)
  BY <1>2
<1>4. FlattenSeq(Append(q, e)) = FlattenSeq(q) \o e
  BY ONLY <1>3, FlattenAppend
<1>5. FlattenSeq(q) \in Seq(Symbol)
  BY ONLY <1>3, FlattenType
<1>. QED  BY <1>2, <1>4, <1>5

LEMMA LeaveBytes ==
  ASSUME BytesOK, NEW c, NEW step, Leave(c, step)
  PROVE  buffer' \in [Client -> Seq(Symbol)] /\ reply' \in [Client -> Seq(Symbol)]
<1>1. <<>> \in Seq(Symbol)
  OBVIOUS
<1>. QED  BY <1>1 DEF Leave, BytesOK

LEMMA ContentType ==
  ASSUME BytesOK
  PROVE  Content \in Seq(Symbol) /\ Len(Content) \in Nat
<1>1. log \in Seq(Seq(Symbol)) /\ file \in Seq(Symbol)
  BY DEF BytesOK
<1>2. FlattenSeq(log) \in Seq(Symbol)
  BY ONLY <1>1, FlattenType
<1>3. Content \in Seq(Symbol)
  BY <1>1, <1>2 DEF Content
<1>4. Len(Content) \in Nat
  BY ONLY <1>3, LenProperties
<1>. QED  BY <1>3, <1>4

(* A position that a command can name is inside the log.                   *)
LEMMA SeekPosition ==
  ASSUME BytesOK, useDevice, NEW x \in Nat, NEW y \in Nat, Exists(x, y)
  PROVE  StartOf(x) + y \in Nat /\ StartOf(x) + y <= Len(Content)
<1>1. log \in Seq(Seq(Symbol)) /\ x + 1 \in 1..Len(log)
  BY LenProperties DEF BytesOK, Exists
<1>2. ElementIsThere(Symbol, log, x + 1)
  BY ONLY <1>1, FlattenElement
<1>3. (x + 1) - 1 = x
  OBVIOUS
<1>4. /\ StartOf(x) \in Nat /\ Len(log[x + 1]) \in Nat
      /\ Len(Upto(log, x + 1)) = StartOf(x) + Len(log[x + 1])
      /\ Len(Upto(log, x + 1)) <= Len(FlattenSeq(log))
      /\ Len(FlattenSeq(log)) \in Nat
  BY ONLY <1>2, <1>3 DEF ElementIsThere, StartOf, Upto
<1>5. y < Len(log[x + 1])
  BY DEF Exists
<1>6. Content = FlattenSeq(log)
  BY DEF Content
<1>. QED  BY <1>4, <1>5, <1>6

(* A read never goes beyond what there is to read.                         *)
LEMMA ReadStops ==
  ASSUME BytesOK, NEW from \in Nat, from < Len(Content),
         NEW to, to = Min({from + BufferSize} \cup {b \in Bounds : b > from})
  PROVE  to \in Nat /\ from <= to /\ to <= Len(Content)
<1>. DEFINE T == {from + BufferSize} \cup {b \in Bounds : b > from}
<1>1. log \in Seq(Seq(Symbol)) /\ file \in Seq(Symbol)
  BY DEF BytesOK
<1>2. Len(Content) \in Bounds
  <2>1. CASE useDevice
    <3>1. Upto(log, Len(log)) = FlattenSeq(log)
      BY ONLY <1>1, FlattenUnfolds
    <3>2. Len(log) \in 0..Len(log)
      BY <1>1
    <3>3. StartOf(Len(log)) = Len(FlattenSeq(log))
      BY <3>1 DEF StartOf, Upto
    <3>. QED  BY <2>1, <3>2, <3>3 DEF Bounds, Content
  <2>2. CASE ~useDevice
    BY <2>2 DEF Bounds, Content
  <2>. QED  BY <2>1, <2>2
<1>3. Bounds \subseteq Nat
  <2>1. \A n \in 0..Len(log) : Upto(log, n) \in Seq(Symbol)
    BY ONLY <1>1, FlattenUnfolds
  <2>2. \A n \in 0..Len(log) : StartOf(n) \in Nat
    <3>. TAKE n \in 0..Len(log)
    <3>1. Upto(log, n) \in Seq(Symbol)
      BY <2>1
    <3>2. Len(Upto(log, n)) \in Nat
      BY ONLY <3>1, LenProperties
    <3>. QED  BY <3>2 DEF StartOf, Upto
  <2>3. Len(file) \in Nat
    BY <1>1
  <2>. QED  BY <2>2, <2>3 DEF Bounds
<1>4. T \subseteq Nat /\ T # {} /\ Len(Content) \in T /\ \A n \in T : from <= n
  <2>1. from + BufferSize \in Nat /\ from <= from + BufferSize
    BY SizeAssumption
  <2>2. Len(Content) \in T
    BY <1>2, <1>3
  <2>3. T \subseteq Nat
    BY <1>3, <2>1
  <2>4. ASSUME NEW n \in T PROVE from <= n
    <3>1. CASE n = from + BufferSize
      BY <2>1, <3>1
    <3>2. CASE n \in {b \in Bounds : b > from}
      BY <1>3, <3>2
    <3>. QED  BY <3>1, <3>2
  <2>. HIDE DEF T
  <2>. QED  BY <2>2, <2>3, <2>4
<1>5. to = Min(T)
  OBVIOUS
<1>. HIDE DEF T
<1>6. T \subseteq Nat /\ T # {}
  BY ONLY <1>4
<1>7. Min(T) \in T /\ \A n \in T : Min(T) <= n
  BY ONLY <1>6, MinIsLeast
<1>. QED  BY <1>4, <1>5, <1>7

(* The ways out of the section: nothing is left of the answer.             *)
LEMMA LeaveAnswers ==
  ASSUME AnswerInv, NEW c \in Client, NEW step \in {"recv", "cleanup"}, Leave(c, step)
  PROVE  Answering(c)'
<1>1. pc'[c] = step /\ reply'[c] = <<>>
  BY DEF Leave, Goto, AnswerInv, SessionInv, BytesOK
<1>. QED  BY <1>1 DEF Answering

(* The same content, the same positions.                                   *)
LEMMA StorageSame ==
  ASSUME UNCHANGED storage
  PROVE  /\ Content' = Content
         /\ \A x, y : (Exists(x, y)' <=> Exists(x, y)) /\ StartOf(x)' = StartOf(x)
         /\ useDevice' = useDevice
BY DEF storage, Content, Exists, StartOf

LEMMA ReadAnswers ==
  ASSUME AnswerInv, NEW c \in Client, NEW step \in {"read_back", "read_rest"},
         NEW next \in {"recv", "cleanup"}, ReadAndSend(c, step, next)
  PROVE  BytesOK' /\ Answering(c)'
<1>0. BytesOK /\ Answering(c) /\ pc[c] = step /\ UNCHANGED <<unsent, storage>>
  BY DEF AnswerInv, ReadAndSend
<1>1. CASE Leave(c, next)
  <2>1. BytesOK'
    BY <1>0, <1>1, LeaveBytes DEF BytesOK, storage
  <2>. QED  BY <1>1, <2>1, LeaveAnswers
<1>2. CASE ~Leave(c, next)
  <2>. DEFINE from == file_desc[c]
              to == Min({from + BufferSize} \cup {b \in Bounds : b > from})
              start == IF step = "read_back" THEN 0 ELSE StartOf(buffer[c][3]) + buffer[c][4]
              piece == SubSeq(Content, from + 1, to)
  <2>1. /\ from < Len(Content)
        /\ reply' = [reply EXCEPT ![c] = @ \o piece]
        /\ file_desc' = [file_desc EXCEPT ![c] = to]
        /\ UNCHANGED <<buffer, pc>>
    BY <1>2 DEF ReadAndSend
  <2>2. /\ start \in Nat /\ from \in Nat /\ start <= from
        /\ reply[c] = SubSeq(Content, start + 1, from)
    <3>1. CASE step = "read_back"
      BY <1>0, <3>1 DEF Answering, ReadsBack
    <3>2. CASE step = "read_rest"
      <4>1. Parses(buffer[c]) /\ useDevice /\ ReadsRest(c)
        BY <1>0, <3>2 DEF Answering
      <4>2. buffer[c][3] \in Nat /\ buffer[c][4] \in Nat
        BY <4>1, NumberAssumption DEF Parses
      <4>3. start \in Nat
        BY <1>0, <3>2, <4>1, <4>2, SeekPosition DEF ReadsRest
      <4>. QED  BY <3>2, <4>1, <4>3 DEF ReadsRest
    <3>. QED  BY <3>1, <3>2
  <2>3. to \in Nat /\ from <= to /\ to <= Len(Content)
    <3>1. from < Len(Content) /\ from \in Nat
      BY <2>1, <2>2
    <3>2. BytesOK
      BY <1>0
    <3>. QED  BY ONLY <3>1, <3>2, ReadStops
  <2>4. Content \in Seq(Symbol)
    BY <1>0, ContentType
  <2>. HIDE DEF from, to, start, piece
  <2>5. piece \in Seq(Symbol)
    BY ONLY <2>2, <2>3, <2>4, PieceOfSeq DEF piece
  <2>6. reply[c] \o piece = SubSeq(Content, start + 1, to)
    <3>1. /\ start \in Nat /\ from \in Nat /\ to \in Nat
          /\ start <= from /\ from <= to /\ to <= Len(Content)
      BY <2>2, <2>3
    <3>2. SubSeq(Content, start + 1, from) \o SubSeq(Content, from + 1, to)
            = SubSeq(Content, start + 1, to)
      BY ONLY <2>4, <3>1, PiecesJoin
    <3>. QED  BY <2>2, <3>2 DEF piece
  <2>7. reply[c] \in Seq(Symbol) /\ reply[c] \o piece \in Seq(Symbol)
    <3>1. reply[c] \in Seq(Symbol)
      BY <1>0 DEF BytesOK
    <3>. QED  BY ONLY <2>5, <3>1, ConcatParts
  <2>8. BytesOK'
    BY <1>0, <2>1, <2>7 DEF BytesOK, storage
  <2>9. /\ Content' = Content /\ useDevice' = useDevice
        /\ \A x, y : (Exists(x, y)' <=> Exists(x, y)) /\ StartOf(x)' = StartOf(x)
    BY <1>0, StorageSame
  <2>10. /\ file_desc'[c] = to /\ reply'[c] = SubSeq(Content, start + 1, to)
         /\ buffer' = buffer /\ pc' = pc
    BY <1>0, <2>1, <2>6 DEF AnswerInv, SessionInv, BytesOK
  <2>11. CASE step = "read_back"
    <3>1. start = 0
      BY <2>11 DEF start
    <3>2. ReadsBack(c)'
      BY <2>3, <2>9, <2>10, <3>1 DEF ReadsBack
    <3>. QED  BY <1>0, <2>8, <2>9, <2>10, <2>11, <3>2 DEF Answering
  <2>12. CASE step = "read_rest"
    <3>1. start = StartOf(buffer[c][3]) + buffer[c][4]
      BY <2>12 DEF start
    <3>2. ReadsRest(c)
      BY <1>0, <2>12 DEF Answering
    <3>3. start <= to
      BY <2>2, <2>3
    <3>4. ReadsRest(c)'
      BY <2>3, <2>9, <2>10, <3>1, <3>2, <3>3 DEF ReadsRest
    <3>. QED  BY <1>0, <2>8, <2>9, <2>10, <2>12, <3>4 DEF Answering
  <2>. QED  BY <2>11, <2>12
<1>. QED  BY <1>1, <1>2

(* An open or a rewind, each with what is known of the thread before it.   *)
LEMMA OpenAnswers ==
  ASSUME AnswerInv, NEW c \in Client, NEW from, NEW to, Open(c, from, to),
         \/ from = "open" /\ to = "write"
         \/ from \in {"reopen", "rewind"} /\ to = "read_back"
         \/ from = "open_seek" /\ to = "ioctl" /\ useDevice
  PROVE  BytesOK' /\ Answering(c)'
<1>0. BytesOK /\ Answering(c) /\ pc[c] = from /\ UNCHANGED <<unsent, storage>>
  BY DEF AnswerInv, Open
<1>1. CASE Leave(c, "cleanup")
  <2>1. BytesOK'
    BY <1>0, <1>1, LeaveBytes DEF BytesOK, storage
  <2>. QED  BY <1>1, <2>1, LeaveAnswers
<1>2. CASE ~Leave(c, "cleanup")
  <2>1. /\ file_desc'[c] = 0 /\ pc'[c] = to /\ UNCHANGED <<buffer, reply>>
    BY <1>2 DEF Open, Goto, AnswerInv, SessionInv
  <2>2. BytesOK'
    BY <1>0, <2>1 DEF BytesOK, storage
  <2>3. reply[c] = <<>>
    BY <1>0 DEF Answering
  <2>4. Content' = Content /\ useDevice' = useDevice
    BY <1>0, StorageSame
  <2>5. CASE to = "read_back"
    <3>1. Content \in Seq(Symbol) /\ Len(Content) \in Nat
      BY <1>0, ContentType
    <3>2. SubSeq(Content, 1, 0) = <<>>
      BY ONLY <3>1
    <3>3. ReadsBack(c)'
      BY <2>1, <2>3, <2>4, <3>1, <3>2 DEF ReadsBack
    <3>. QED  BY <1>0, <2>1, <2>2, <2>4, <2>5, <3>3 DEF Answering
  <2>6. CASE to # "read_back"
    BY <1>0, <2>1, <2>2, <2>3, <2>4, <2>6 DEF Answering, Parses
  <2>. QED  BY <2>5, <2>6
<1>. QED  BY <1>1, <1>2

LEMMA WriteAnswers ==
  ASSUME AnswerInv, NEW c \in Client, Write(c)
  PROVE  BytesOK' /\ Answering(c)'
<1>0. BytesOK /\ Answering(c) /\ pc[c] = "write" /\ UNCHANGED <<unsent, useDevice>>
  BY DEF AnswerInv, Write, WriteDevice, WriteFile
<1>1. /\ buffer[c] \in Seq(Symbol) /\ partial \in Seq(Symbol) /\ file \in Seq(Symbol)
      /\ reply[c] = <<>>
  BY <1>0 DEF BytesOK, Answering
<1>2. partial \o buffer[c] \in Seq(Symbol) /\ file \o buffer[c] \in Seq(Symbol)
  BY ONLY <1>1, ConcatParts
<1>3. CASE useDevice
  <2>1. WriteDevice(c) /\ UNCHANGED file
    BY <1>3 DEF Write, WriteDevice
  <2>2. CASE Leave(c, "cleanup") /\ UNCHANGED <<log, partial>>
    BY <1>0, <2>1, <2>2, LeaveBytes, LeaveAnswers DEF BytesOK
  <2>3. CASE ~(Leave(c, "cleanup") /\ UNCHANGED <<log, partial>>)
    <3>1. CASE Contains(buffer[c], Newline)
      <4>1. /\ log' = CommandLog!Pushed(partial \o buffer[c])
            /\ partial' = <<>>
            /\ pc' = [pc EXCEPT ![c] = "reopen"]
            /\ UNCHANGED <<buffer, reply>>
        BY <2>1, <2>3, <3>1 DEF WriteDevice, Goto
      <4>2. BytesOK'
        <5>1. log' \in Seq(Seq(Symbol))
          BY <1>0, <1>2, <4>1, PushedType
        <5>2. <<>> \in Seq(Symbol)
          OBVIOUS
        <5>. QED  BY <1>0, <2>1, <4>1, <5>1, <5>2 DEF BytesOK
      <4>3. IsSuffix(buffer[c], FlattenSeq(log'))
        <5>1. PICK head : /\ head \in Seq(Symbol)
                          /\ FlattenSeq(log') = head \o (partial \o buffer[c])
          BY <1>0, <1>2, <4>1, PushedIsLast
        <5>2. head \in Seq(Symbol)
          BY <5>1
        <5>3. IsSuffix(buffer[c], head \o (partial \o buffer[c]))
          BY ONLY <1>1, <5>2, SuffixOfThree
        <5>. QED  BY <5>1, <5>3
      <4>4. Content' = FlattenSeq(log')
        BY <1>0, <1>3 DEF Content
      <4>5. pc'[c] = "reopen"
        BY <4>1 DEF AnswerInv, SessionInv
      <4>. QED  BY <1>1, <4>1, <4>2, <4>3, <4>4, <4>5 DEF Answering
    <3>2. CASE ~Contains(buffer[c], Newline)
      <4>1. /\ partial' = partial \o buffer[c]
            /\ UNCHANGED log
            /\ Leave(c, "recv")
        BY <2>1, <2>3, <3>2 DEF WriteDevice
      <4>. QED  BY <1>0, <1>2, <2>1, <4>1, LeaveBytes, LeaveAnswers DEF BytesOK
    <3>. QED  BY <3>1, <3>2
  <2>. QED  BY <2>2, <2>3
<1>4. CASE ~useDevice
  <2>1. WriteFile(c) /\ UNCHANGED <<log, partial>>
    BY <1>4 DEF Write, WriteFile
  <2>2. ASSUME NEW n \in 0..(Len(buffer[c]) - 1),
               file' = file \o SubSeq(buffer[c], 1, n), Leave(c, "cleanup")
        PROVE  BytesOK' /\ Answering(c)'
    <3>1. SubSeq(buffer[c], 1, n) \in Seq(Symbol)
      <4>1. n \in 0..Len(buffer[c])
        BY <1>1
      <4>. QED  BY ONLY <1>1, <4>1, PieceType
    <3>2. file' \in Seq(Symbol)
      BY ONLY <1>1, <2>2, <3>1, ConcatParts
    <3>. QED  BY <1>0, <2>1, <2>2, <3>2, LeaveBytes, LeaveAnswers DEF BytesOK
  <2>3. ASSUME file' = file \o buffer[c], Contains(buffer[c], Newline),
               Goto(c, "rewind"), UNCHANGED <<buffer, reply>>
        PROVE  BytesOK' /\ Answering(c)'
    <3>1. BytesOK'
      BY <1>0, <1>2, <2>1, <2>3 DEF BytesOK
    <3>2. Content' = file \o buffer[c]
      BY <1>0, <1>4, <2>3 DEF Content
    <3>3. IsSuffix(buffer[c], file \o buffer[c])
      BY ONLY <1>1, SuffixOfConcat
    <3>4. pc'[c] = "rewind"
      BY <2>3 DEF AnswerInv, SessionInv, Goto
    <3>. QED  BY <1>1, <2>3, <3>1, <3>2, <3>3, <3>4 DEF Answering
  <2>4. ASSUME file' = file \o buffer[c], Leave(c, "recv")
        PROVE  BytesOK' /\ Answering(c)'
    BY <1>0, <1>2, <2>1, <2>4, LeaveBytes, LeaveAnswers DEF BytesOK
  <2>. QED  BY <2>1, <2>2, <2>3, <2>4 DEF WriteFile
<1>. QED  BY <1>3, <1>4

(* What a step of one thread leaves alone: the other threads, and, unless  *)
(* it is a write, the log and the file.                                    *)
LEMMA OthersSame ==
  ASSUME AnswerInv, NEW c \in Client, handle_client(c), NEW d \in Client, d # c
  PROVE  /\ pc'[d] = pc[d] /\ file_desc'[d] = file_desc[d]
         /\ buffer'[d] = buffer[d] /\ reply'[d] = reply[d]
<1>1. /\ DOMAIN pc = Client /\ DOMAIN file_desc = Client
      /\ DOMAIN buffer = Client /\ DOMAIN reply = Client
  BY DEF AnswerInv, SessionInv, BytesOK
<1>2. CASE \E step : Leave(c, step)
  BY <1>1, <1>2 DEF Leave, Goto
<1>. SUFFICES ASSUME \A step : ~Leave(c, step)
              PROVE  /\ pc'[d] = pc[d] /\ file_desc'[d] = file_desc[d]
                     /\ buffer'[d] = buffer[d] /\ reply'[d] = reply[d]
  BY <1>2
<1>3. CASE Recv(c) \/ Hangup(c) \/ Cleanup(c)
  BY <1>1, <1>3 DEF Recv, Hangup, Cleanup, Goto
<1>4. CASE Lock(c, "lock", "open") \/ Lock(c, "lock_seek", "open_seek")
  BY <1>1, <1>4 DEF Lock, Goto
<1>5. CASE \/ Open(c, "open", "write") \/ Open(c, "reopen", "read_back") \/ Rewind(c)
           \/ OpenToSeek(c)
  BY <1>1, <1>5 DEF Open, Rewind, OpenToSeek, Goto
<1>6. CASE Write(c)
  BY <1>1, <1>6 DEF Write, WriteDevice, WriteFile, Goto
<1>7. CASE Ioctl(c)
  BY <1>1, <1>7 DEF Ioctl, Goto
<1>8. CASE ReadAndSend(c, "read_back", "cleanup") \/ ReadAndSend(c, "read_rest", "recv")
  BY <1>1, <1>8 DEF ReadAndSend
<1>. QED  BY <1>3, <1>4, <1>5, <1>6, <1>7, <1>8 DEF handle_client

LEMMA StorageKept ==
  ASSUME NEW c, handle_client(c), ~Write(c)
  PROVE  UNCHANGED storage
BY DEF handle_client, Recv, Hangup, Lock, Open, Rewind, ReadAndSend, OpenToSeek, Ioctl, Cleanup

(* A thread outside the section asks nothing of the log.                   *)
LEMMA OutsideAnswers ==
  ASSUME NEW d, pc[d] \in Outside, Answering(d),
         pc'[d] = pc[d], buffer'[d] = buffer[d], reply'[d] = reply[d]
  PROVE  Answering(d)'
BY DEF Outside, Answering, Parses

LEMMA SameAnswers ==
  ASSUME NEW d, Answering(d), UNCHANGED storage,
         pc'[d] = pc[d], file_desc'[d] = file_desc[d],
         buffer'[d] = buffer[d], reply'[d] = reply[d]
  PROVE  Answering(d)'
<1>1. /\ Content' = Content /\ useDevice' = useDevice
      /\ \A x, y : (Exists(x, y)' <=> Exists(x, y)) /\ StartOf(x)' = StartOf(x)
  BY StorageSame
<1>2. ReadsBack(d) => ReadsBack(d)'
  BY <1>1 DEF ReadsBack
<1>3. ReadsRest(d) => ReadsRest(d)'
  BY <1>1 DEF ReadsRest
<1>. QED  BY <1>1, <1>2, <1>3 DEF Answering, Parses

(* The step of the thread itself.                                          *)
LEMMA OwnAnswers ==
  ASSUME AnswerInv, NEW c \in Client, handle_client(c)
  PROVE  BytesOK' /\ Answering(c)'
<1>0. BytesOK /\ Answering(c) /\ DOMAIN pc = Client
  BY DEF AnswerInv, SessionInv
<1>1. CASE Recv(c)
  <2>1. PICK n \in 1..Min({BufferSize, Len(unsent[c])}) :
          LET chunk == SubSeq(unsent[c], 1, n)
          IN  /\ buffer' = [buffer EXCEPT ![c] = chunk]
              /\ unsent' = [unsent EXCEPT ![c] = SubSeq(@, n + 1, Len(@))]
              /\ Goto(c, IF ~IsSeek(chunk) THEN "lock"
                         ELSE IF Parses(chunk) THEN "lock_seek" ELSE "cleanup")
    BY <1>1 DEF Recv
  <2>. DEFINE chunk == SubSeq(unsent[c], 1, n)
              rest == SubSeq(unsent[c], n + 1, Len(unsent[c]))
  <2>2. pc[c] = "recv" /\ UNCHANGED <<reply, storage>>
    BY <1>1 DEF Recv
  <2>3. unsent[c] \in Seq(Symbol) /\ Len(unsent[c]) \in Nat
    BY <1>0 DEF BytesOK
  <2>4. n \in 0..Len(unsent[c])
    <3>. DEFINE T == {BufferSize, Len(unsent[c])}
    <3>1. T \subseteq Nat /\ T # {} /\ Len(unsent[c]) \in T
      BY <2>3, SizeAssumption
    <3>2. n \in 1..Min(T)
      OBVIOUS
    <3>. HIDE DEF T
    <3>3. T \subseteq Nat /\ T # {}
      BY ONLY <3>1
    <3>4. Min(T) \in T /\ \A m \in T : Min(T) <= m
      BY ONLY <3>3, MinIsLeast
    <3>5. Min(T) <= Len(unsent[c]) /\ Min(T) \in Nat
      BY ONLY <3>1, <3>4
    <3>6. Len(unsent[c]) \in Nat
      BY <2>3
    <3>. QED  BY ONLY <3>2, <3>5, <3>6
  <2>5. chunk \in Seq(Symbol) /\ rest \in Seq(Symbol)
    <3>1. unsent[c] \in Seq(Symbol)
      BY <2>3
    <3>. QED  BY ONLY <2>4, <3>1, PieceType
  <2>6. /\ buffer' = [buffer EXCEPT ![c] = chunk]
        /\ unsent' = [unsent EXCEPT ![c] = rest]
    BY <2>1
  <2>7. /\ pc'[c] \in {"lock", "lock_seek", "cleanup"}
        /\ pc'[c] = "lock_seek" => Parses(chunk)
    BY <1>0, <2>1 DEF Goto
  <2>. HIDE DEF chunk, rest
  <2>8. BytesOK'
    BY <1>0, <2>2, <2>5, <2>6 DEF BytesOK, storage
  <2>9. reply[c] = <<>> /\ buffer'[c] = chunk
    BY <1>0, <2>2, <2>6 DEF Answering, BytesOK
  <2>. QED  BY <2>2, <2>7, <2>8, <2>9 DEF Answering, Parses
<1>2. CASE Hangup(c) \/ Cleanup(c)
  <2>1. /\ UNCHANGED <<unsent, buffer, reply, storage>>
        /\ pc[c] \in Outside /\ pc'[c] \in {"cleanup", "done"}
    BY <1>0, <1>2 DEF Hangup, Cleanup, Goto, Outside
  <2>. QED  BY <1>0, <2>1 DEF BytesOK, Answering, storage, Outside
<1>3. CASE Lock(c, "lock", "open") \/ Lock(c, "lock_seek", "open_seek")
  <2>1. /\ UNCHANGED <<unsent, buffer, reply, storage>>
        /\ \/ pc[c] = "lock" /\ pc'[c] = "open"
           \/ pc[c] = "lock_seek" /\ pc'[c] = "open_seek"
    BY <1>0, <1>3 DEF Lock, Goto
  <2>. QED  BY <1>0, <2>1 DEF BytesOK, Answering, storage, Parses
<1>4. CASE \/ Open(c, "open", "write") \/ Open(c, "reopen", "read_back")
           \/ Rewind(c)
  BY <1>4, OpenAnswers DEF Rewind
<1>5. CASE Write(c)
  BY <1>5, WriteAnswers
<1>6. CASE OpenToSeek(c)
  <2>1. CASE useDevice
    BY <1>6, <2>1, OpenAnswers DEF OpenToSeek
  <2>2. CASE ~useDevice
    BY <1>0, <1>6, <2>2, LeaveBytes, LeaveAnswers DEF OpenToSeek, BytesOK, storage
  <2>. QED  BY <2>1, <2>2
<1>7. CASE Ioctl(c)
  <2>. DEFINE x == buffer[c][3]
              y == buffer[c][4]
  <2>0. pc[c] = "ioctl" /\ UNCHANGED <<unsent, storage>>
    BY <1>7 DEF Ioctl
  <2>1. CASE Leave(c, "cleanup")
    BY <1>0, <2>0, <2>1, LeaveBytes, LeaveAnswers DEF BytesOK, storage
  <2>2. CASE ~Leave(c, "cleanup")
    <3>1. /\ Exists(x, y)
          /\ file_desc' = [file_desc EXCEPT ![c] = StartOf(x) + y]
          /\ pc' = [pc EXCEPT ![c] = "read_rest"]
          /\ UNCHANGED <<buffer, reply>>
      BY <1>7, <2>2 DEF Ioctl, Goto
    <3>2. Parses(buffer[c]) /\ useDevice /\ reply[c] = <<>>
      BY <1>0, <2>0 DEF Answering
    <3>3. x \in Nat /\ y \in Nat
      BY <3>2, NumberAssumption DEF Parses
    <3>4. StartOf(x) + y \in Nat /\ StartOf(x) + y <= Len(Content)
      BY <1>0, <3>1, <3>2, <3>3, SeekPosition
    <3>5. /\ Content' = Content /\ useDevice' = useDevice
          /\ \A p, q : (Exists(p, q)' <=> Exists(p, q)) /\ StartOf(p)' = StartOf(p)
      BY <2>0, StorageSame
    <3>6. SubSeq(Content, StartOf(x) + y + 1, StartOf(x) + y) = <<>>
      <4>1. Content \in Seq(Symbol)
        BY <1>0, ContentType
      <4>2. PICK n \in Nat : n = StartOf(x) + y
        BY <3>4
      <4>3. SubSeq(Content, n + 1, n) = <<>>
        BY ONLY <4>1, n \in Nat
      <4>. QED  BY <4>2, <4>3
    <3>7. file_desc'[c] = StartOf(x) + y /\ pc'[c] = "read_rest"
      BY <3>1 DEF AnswerInv, SessionInv
    <3>8. ReadsRest(c)'
      BY <3>1, <3>2, <3>4, <3>5, <3>6, <3>7 DEF ReadsRest
    <3>9. BytesOK'
      BY <1>0, <2>0, <3>1 DEF BytesOK, storage
    <3>. QED  BY <3>1, <3>2, <3>5, <3>7, <3>8, <3>9 DEF Answering, Parses
  <2>. QED  BY <2>1, <2>2
<1>8. CASE ReadAndSend(c, "read_back", "cleanup") \/ ReadAndSend(c, "read_rest", "recv")
  BY <1>8, ReadAnswers
<1>. QED  BY <1>1, <1>2, <1>3, <1>4, <1>5, <1>6, <1>7, <1>8 DEF handle_client

LEMMA AnswerStep == AnswerInv /\ [Next]_vars => AnswerInv'
<1>. SUFFICES ASSUME AnswerInv, [Next]_vars PROVE AnswerInv'
  OBVIOUS
<1>0. SessionInv' /\ BytesOK /\ \A c \in Client : Answering(c)
  BY SessionStep DEF AnswerInv
<1>1. CASE UNCHANGED vars
  <2>1. UNCHANGED <<storage, pc, file_desc, buffer, reply>>
    BY <1>1 DEF vars, storage
  <2>2. BytesOK'
    BY <1>0, <1>1 DEF vars, BytesOK
  <2>3. \A c \in Client : Answering(c)'
    BY <1>0, <2>1, SameAnswers
  <2>. QED  BY <1>0, <2>2, <2>3 DEF AnswerInv
<1>2. CASE timestamp_thread
  <2>1. UNCHANGED <<unsent, pc, file_desc, buffer, reply, log, partial>> /\ file_mutex = NULL
    BY <1>2 DEF timestamp_thread
  <2>2. \A c \in Client : pc[c] \in Outside
    BY <2>1, NullAssumption DEF AnswerInv, SessionInv, SectionLeftClean
  <2>3. \A c \in Client : Answering(c)'
    BY <1>0, <2>1, <2>2, OutsideAnswers
  <2>4. PICK n \in 1..2 : file' = file \o SubSeq(<<Stamp, Newline>>, 1, n)
    BY <1>2 DEF timestamp_thread
  <2>5. SubSeq(<<Stamp, Newline>>, 1, n) \in Seq(Symbol)
    <3>1. <<Stamp, Newline>> \in Seq(Symbol) /\ n \in 0..Len(<<Stamp, Newline>>)
      BY DEF Symbol
    <3>. QED  BY ONLY <3>1, PieceType
  <2>6. file' \in Seq(Symbol)
    <3>1. file \in Seq(Symbol)
      BY <1>0 DEF BytesOK
    <3>. QED  BY ONLY <2>4, <2>5, <3>1, ConcatParts
  <2>7. BytesOK'
    BY <1>0, <2>1, <2>6 DEF BytesOK
  <2>. QED  BY <1>0, <2>3, <2>7 DEF AnswerInv
<1>3. ASSUME NEW c \in Client, handle_client(c) PROVE AnswerInv'
  <2>1. BytesOK' /\ Answering(c)'
    BY <1>3, OwnAnswers
  <2>2. ASSUME NEW d \in Client, d # c PROVE Answering(d)'
    <3>1. /\ pc'[d] = pc[d] /\ file_desc'[d] = file_desc[d]
          /\ buffer'[d] = buffer[d] /\ reply'[d] = reply[d]
      BY <1>3, <2>2, OthersSame
    <3>2. CASE Write(c)
      <4>1. pc[c] = "write"
        BY <3>2 DEF Write
      <4>2. pc[d] \in Outside
        BY <2>2, <4>1 DEF AnswerInv, SessionInv, SectionLeftClean, Outside
      <4>. QED  BY <1>0, <3>1, <4>2, OutsideAnswers
    <3>3. CASE ~Write(c)
      BY <1>0, <1>3, <3>1, <3>3, StorageKept, SameAnswers
    <3>. QED  BY <3>2, <3>3
  <2>. QED  BY <1>0, <2>1, <2>2 DEF AnswerInv
<1>. QED  BY <1>1, <1>2, <1>3 DEF Next

(***************************************************************************)
(* What a client is sent after a complete command (handle_client, the loop *)
(* that reads back) is the beginning of the log, and the log ends with the *)
(* chunk that the client sent, for any number of clients and whatever they *)
(* and the timestamp thread write.                                         *)
(***************************************************************************)
THEOREM AnswersShowCommands == Spec => []AnswerShowsCommand
<1>1. AnswerInv => AnswerShowsCommand
  BY DEF AnswerInv, Answering, ReadsBack, AnswerShowsCommand
<1>. QED  BY <1>1, InitAnswers, AnswerStep, PTL DEF Spec

(***************************************************************************)
(* What a client is sent after a seek command is the log from the position *)
(* the command names, which is one that exists.                            *)
(***************************************************************************)
THEOREM AnswersStartAtSeeks == Spec => []AnswerStartsAtSeek
<1>1. AnswerInv => AnswerStartsAtSeek
  BY DEF AnswerInv, Answering, ReadsRest, AnswerStartsAtSeek
<1>. QED  BY <1>1, InitAnswers, AnswerStep, PTL DEF Spec
-----------------------------------------------------------------------------

(***************************************************************************)
(* The promise to the clients.  Beside what is known of an answer, a chunk *)
(* goes the way that its first bytes ask for, and none is left when a      *)
(* thread receives the next.                                               *)
(***************************************************************************)
Kinds(c) ==
  /\ pc[c] = "recv" => buffer[c] = <<>>
  /\ pc[c] \in {"lock", "open", "write"} => ~IsSeek(buffer[c])
  /\ pc[c] \in {"lock_seek", "open_seek", "ioctl"} => IsSeek(buffer[c])

EchoInv == AnswerInv /\ \A c \in Client : Kinds(c)

LEMMA InitEcho == Init => EchoInv
BY InitAnswers DEF Init, EchoInv, Kinds

(* What a step of a thread does to its own chunk and place.                *)
LEMMA OwnKind ==
  ASSUME EchoInv, NEW c \in Client, handle_client(c)
  PROVE  Kinds(c)'
<1>0. /\ Kinds(c) /\ DOMAIN pc = Client
      /\ buffer \in [Client -> Seq(Symbol)]
  BY DEF EchoInv, AnswerInv, SessionInv, BytesOK
<1>1. CASE \E step \in {"recv", "cleanup"} : Leave(c, step)
  <2>1. PICK step \in {"recv", "cleanup"} : pc'[c] = step /\ buffer'[c] = <<>>
    BY <1>0, <1>1 DEF Leave, Goto
  <2>. QED  BY <2>1 DEF Kinds
<1>. SUFFICES ASSUME \A step \in {"recv", "cleanup"} : ~Leave(c, step)
              PROVE  Kinds(c)'
  BY <1>1
<1>2. CASE Recv(c)
  <2>1. PICK chunk : /\ buffer' = [buffer EXCEPT ![c] = chunk]
                     /\ Goto(c, IF ~IsSeek(chunk) THEN "lock"
                                ELSE IF Parses(chunk) THEN "lock_seek" ELSE "cleanup")
    BY <1>2 DEF Recv
  <2>2. /\ buffer'[c] = chunk
        /\ \/ pc'[c] = "lock" /\ ~IsSeek(chunk)
           \/ pc'[c] = "lock_seek" /\ IsSeek(chunk)
           \/ pc'[c] = "cleanup"
    BY <1>0, <2>1 DEF Goto
  <2>. QED  BY <2>2 DEF Kinds, IsSeek
<1>3. CASE Hangup(c) \/ Cleanup(c)
  <2>1. pc'[c] \in {"cleanup", "done"}
    BY <1>0, <1>3 DEF Hangup, Cleanup, Goto
  <2>. QED  BY <2>1 DEF Kinds
<1>4. CASE Lock(c, "lock", "open") \/ Lock(c, "lock_seek", "open_seek")
  <2>1. /\ buffer' = buffer
        /\ \/ pc[c] = "lock" /\ pc'[c] = "open"
           \/ pc[c] = "lock_seek" /\ pc'[c] = "open_seek"
    BY <1>0, <1>4 DEF Lock, Goto
  <2>. QED  BY <1>0, <2>1 DEF Kinds, IsSeek
<1>5. CASE \/ Open(c, "open", "write") \/ Open(c, "reopen", "read_back")
           \/ Rewind(c) \/ OpenToSeek(c)
  <2>1. /\ buffer' = buffer
        /\ \/ pc[c] = "open" /\ pc'[c] = "write"
           \/ pc'[c] = "read_back"
           \/ pc[c] = "open_seek" /\ pc'[c] = "ioctl"
    BY <1>0, <1>5 DEF Open, Rewind, OpenToSeek, Goto
  <2>. QED  BY <1>0, <2>1 DEF Kinds, IsSeek
<1>6. CASE Write(c) \/ Ioctl(c)
  <2>1. pc'[c] \in {"reopen", "rewind", "read_rest"}
    BY <1>0, <1>6 DEF Write, WriteDevice, WriteFile, Ioctl, Goto
  <2>. QED  BY <2>1 DEF Kinds
<1>7. CASE ReadAndSend(c, "read_back", "cleanup") \/ ReadAndSend(c, "read_rest", "recv")
  <2>1. pc'[c] \in {"read_back", "read_rest"}
    BY <1>0, <1>7 DEF ReadAndSend
  <2>. QED  BY <2>1 DEF Kinds
<1>. QED  BY <1>2, <1>3, <1>4, <1>5, <1>6, <1>7 DEF handle_client

LEMMA EchoInvStep == EchoInv /\ [Next]_vars => EchoInv'
<1>. SUFFICES ASSUME EchoInv, [Next]_vars PROVE EchoInv'
  OBVIOUS
<1>0. AnswerInv /\ AnswerInv' /\ \A c \in Client : Kinds(c)
  BY AnswerStep DEF EchoInv
<1>1. CASE UNCHANGED <<pc, buffer>>
  BY <1>0, <1>1 DEF EchoInv, Kinds, IsSeek
<1>2. ASSUME NEW c \in Client, handle_client(c) PROVE EchoInv'
  <2>1. Kinds(c)'
    BY <1>2, OwnKind
  <2>2. ASSUME NEW d \in Client, d # c PROVE Kinds(d)'
    <3>1. pc'[d] = pc[d] /\ buffer'[d] = buffer[d]
      BY <1>0, <1>2, <2>2, OthersSame
    <3>. QED  BY <1>0, <3>1 DEF Kinds, IsSeek
  <2>. QED  BY <1>0, <2>1, <2>2 DEF EchoInv
<1>3. [Next]_vars => UNCHANGED <<pc, buffer>> \/ \E c \in Client : handle_client(c)
  BY DEF Next, vars, timestamp_thread
<1>. QED  BY <1>1, <1>2, <1>3

(* The two modules mean the same by the same words.                        *)
LEMMA SameWords ==
  /\ EchoLog!Content = Content
  /\ \A n : EchoLog!StartOf(n) = StartOf(n)
  /\ \A c : EchoLog!IsSeek(c) <=> IsSeek(buffer[c])
  /\ \A s, e : EchoLog!Contains(s, e) <=> Contains(s, e)
  /\ \A e : EchoLog!CommandLog!Pushed(e) = CommandLog!Pushed(e)
<1>1. \A s : EchoLog!FlattenSeq(s) = FlattenSeq(s)
  BY DEF EchoLog!FlattenSeq, FlattenSeq
<1>2. EchoLog!Content = Content
  BY <1>1 DEF EchoLog!Content, Content
<1>3. \A n : EchoLog!StartOf(n) = StartOf(n)
  BY <1>1 DEF EchoLog!StartOf, StartOf
<1>4. \A c : EchoLog!IsSeek(c) <=> IsSeek(buffer[c])
  BY DEF EchoLog!IsSeek, IsSeek, EchoLog!IsPrefix, IsPrefix
<1>5. \A s, e : EchoLog!Contains(s, e) <=> Contains(s, e)
  BY DEF EchoLog!Contains, Contains
<1>6. \A e : EchoLog!CommandLog!Pushed(e) = CommandLog!Pushed(e)
  BY DEF EchoLog!CommandLog!Pushed, CommandLog!Pushed
<1>. QED  BY <1>2, <1>3, <1>4, <1>5, <1>6

(* The answers of the other threads stay: they are only due in the locked  *)
(* section, and there they keep the log as it is.                          *)
LEMMA AnswersChange ==
  ASSUME EchoInv, NEW c \in Client, handle_client(c)
  PROVE  /\ Answers' = [Answers EXCEPT ![c] = Answers'[c]]
         /\ DOMAIN Answers = Client
         /\ Answers'[c] = Answers[c] => Answers' = Answers
<1>1. ASSUME NEW d \in Client, d # c PROVE Answers'[d] = Answers[d]
  <2>1. pc'[d] = pc[d] /\ buffer'[d] = buffer[d] /\ reply'[d] = reply[d]
    BY <1>1, OthersSame DEF EchoInv
  <2>2. CASE Write(c)
    <3>1. pc[d] \in Outside
      BY <1>1, <2>2 DEF Write, EchoInv, AnswerInv, SessionInv, SectionLeftClean, Outside
    <3>. QED  BY <2>1, <3>1 DEF Answers, Outside
  <2>3. CASE ~Write(c)
    <3>1. \A x : StartOf(x)' = StartOf(x)
      BY <2>3, StorageKept, StorageSame
    <3>. QED  BY <2>1, <3>1 DEF Answers, AnswerStart
  <2>. QED  BY <2>2, <2>3
<1>2. DOMAIN Answers = Client /\ DOMAIN Answers' = Client
  BY DEF Answers
<1>3. /\ Answers = [d \in Client |-> Answers[d]]
      /\ Answers' = [d \in Client |-> Answers'[d]]
  BY DEF Answers
<1>. QED  BY <1>1, <1>2, <1>3

(* A step that clients cannot see.                                         *)
LEMMA QuietStep ==
  ASSUME EchoInv, NEW c \in Client, handle_client(c),
         UNCHANGED <<unsent, buffer, storage>>, Answers'[c] = Answers[c]
  PROVE  UNCHANGED EchoLog!vars
<1>1. Answers' = Answers
  BY AnswersChange
<1>. QED  BY <1>1 DEF EchoLog!vars, storage

(* The thread that writes or seeks is alone in the section.                *)
LEMMA NobodyAnswered ==
  ASSUME EchoInv,
         \/ file_mutex = NULL
         \/ \E c \in Client : pc[c] \in {"open", "write", "open_seek", "ioctl"}
  PROVE  EchoLog!Idle
<1>1. \A d \in Client : pc[d] \notin {"reopen", "rewind", "read_back", "read_rest"}
  BY NullAssumption DEF EchoInv, AnswerInv, SessionInv, SectionLeftClean, Outside
<1>. QED  BY <1>1 DEF EchoLog!Idle, Answers

LEMMA LeaveIsDone ==
  ASSUME EchoInv, NEW c \in Client, handle_client(c),
         NEW step \in {"recv", "cleanup"}, Leave(c, step)
  PROVE  EchoLog!Done(c)
<1>1. pc'[c] = step
  BY DEF Leave, Goto, EchoInv, AnswerInv, SessionInv
<1>2. Answers'[c] = {}
  BY <1>1 DEF Answers
<1>3. Answers' = [Answers EXCEPT ![c] = {}]
  BY <1>2, AnswersChange
<1>. QED  BY <1>3 DEF Leave, EchoLog!Done

LEMMA LeaveFinishes ==
  ASSUME EchoInv, NEW c \in Client, handle_client(c),
         NEW step \in {"recv", "cleanup"}, Leave(c, step), UNCHANGED <<unsent, storage>>
  PROVE  EchoLog!Finish(c)
BY LeaveIsDone DEF EchoLog!Finish, EchoLog!store, storage

LEMMA RecvReceives ==
  ASSUME EchoInv, NEW c \in Client, Recv(c), handle_client(c)
  PROVE  EchoLog!Receive(c)
<1>1. PICK n \in 1..Min({BufferSize, Len(unsent[c])}) :
        /\ buffer' = [buffer EXCEPT ![c] = SubSeq(unsent[c], 1, n)]
        /\ unsent' = [unsent EXCEPT ![c] = SubSeq(@, n + 1, Len(@))]
  BY DEF Recv
<1>2. n \in 1..Len(unsent[c])
  <2>1. Len(unsent[c]) \in Nat /\ BufferSize \in Nat
    BY SizeAssumption DEF EchoInv, AnswerInv, BytesOK
  <2>2. /\ Min({BufferSize, Len(unsent[c])}) \in Nat
        /\ Min({BufferSize, Len(unsent[c])}) <= Len(unsent[c])
    BY ONLY <2>1, MinOfTwo
  <2>. QED  BY <2>1, <2>2
<1>3. pc[c] = "recv" /\ buffer[c] = <<>> /\ UNCHANGED storage
  BY DEF Recv, EchoInv, Kinds
<1>4. pc'[c] \in {"lock", "lock_seek", "cleanup"}
  BY DEF Recv, Goto, EchoInv, AnswerInv, SessionInv
<1>5. Answers' = Answers
  <2>1. Answers'[c] = Answers[c]
    BY <1>3, <1>4 DEF Answers
  <2>. QED  BY <2>1, AnswersChange
<1>. QED  BY <1>1, <1>2, <1>3, <1>5 DEF EchoLog!Receive, EchoLog!store, storage

(* An answer begins where nothing has been sent yet.                       *)
LEMMA AnswerBegins ==
  ASSUME EchoInv, NEW c \in Client, handle_client(c), NEW n,
         pc'[c] \in {"reopen", "rewind", "read_rest"}, UNCHANGED <<buffer, reply>>,
         pc[c] \in {"write", "ioctl"}, n = AnswerStart(c)'
  PROVE  EchoLog!AnswerFrom(c, n)
<1>1. reply[c] = <<>>
  BY DEF EchoInv, AnswerInv, Answering
<1>2. Answers'[c] = {[from |-> n, sent |-> <<>>]}
  BY <1>1 DEF Answers
<1>3. Answers' = [Answers EXCEPT ![c] = {[from |-> n, sent |-> <<>>]}]
  BY <1>2, AnswersChange
<1>. QED  BY <1>3 DEF EchoLog!AnswerFrom

LEMMA WriteStores ==
  ASSUME EchoInv, NEW c \in Client, Write(c), handle_client(c)
  PROVE  EchoLog!Store(c) \/ EchoLog!StoreHead(c) \/ EchoLog!Finish(c)
<1>0. /\ pc[c] = "write" /\ DOMAIN pc = Client
      /\ UNCHANGED <<unsent, useDevice>>
  BY DEF Write, WriteDevice, WriteFile, EchoInv, AnswerInv, SessionInv
<1>1. EchoLog!Idle /\ ~EchoLog!IsSeek(c)
  BY <1>0, NobodyAnswered, SameWords DEF EchoInv, Kinds
<1>2. Contains(buffer[c], Newline) <=> EchoLog!Contains(buffer[c], Newline)
  BY SameWords
<1>3. ASSUME pc'[c] \in {"reopen", "rewind"}, UNCHANGED <<buffer, reply>>
      PROVE  EchoLog!AnswerFrom(c, 0)
  <2>1. AnswerStart(c)' = 0
    BY <1>3 DEF AnswerStart
  <2>. QED  BY <1>0, <1>3, <2>1, AnswerBegins
<1>4. CASE useDevice
  <2>1. WriteDevice(c)
    BY <1>4 DEF Write
  <2>2. CASE Leave(c, "cleanup") /\ UNCHANGED <<log, partial>>
    BY <1>0, <2>1, <2>2, LeaveFinishes DEF WriteDevice, storage
  <2>3. CASE Contains(buffer[c], Newline) /\ ~Leave(c, "cleanup")
    <3>1. /\ log' = CommandLog!Pushed(partial \o buffer[c])
          /\ partial' = <<>>
          /\ Goto(c, "reopen")
          /\ UNCHANGED <<buffer, reply, file>>
      BY <2>1, <2>3 DEF WriteDevice
    <3>2. pc'[c] = "reopen"
      BY <1>0, <3>1 DEF Goto
    <3>3. EchoLog!Kept(c)
      BY <1>2, <1>4, <2>3, <3>1, SameWords DEF EchoLog!Kept
    <3>. QED  BY <1>0, <1>1, <1>2, <1>3, <2>3, <3>1, <3>2, <3>3 DEF EchoLog!Store
  <2>4. CASE ~Contains(buffer[c], Newline) /\ ~(Leave(c, "cleanup") /\ UNCHANGED <<log, partial>>)
    <3>1. /\ partial' = partial \o buffer[c]
          /\ Leave(c, "recv")
          /\ UNCHANGED <<log, file>>
      BY <2>1, <2>4 DEF WriteDevice
    <3>2. EchoLog!Kept(c)
      BY <1>2, <1>4, <2>4, <3>1 DEF EchoLog!Kept
    <3>3. EchoLog!Done(c)
      BY <3>1, LeaveIsDone
    <3>. QED  BY <1>0, <1>1, <1>2, <2>4, <3>2, <3>3 DEF EchoLog!Store
  <2>5. Leave(c, "cleanup") => UNCHANGED <<log, partial>> \/ ~Contains(buffer[c], Newline)
    BY <1>0, <2>1 DEF WriteDevice, Leave, Goto
  <2>. QED  BY <2>2, <2>3, <2>4, <2>5
<1>5. CASE ~useDevice
  <2>1. WriteFile(c) /\ UNCHANGED <<log, partial>>
    BY <1>5 DEF Write, WriteFile
  <2>2. ASSUME NEW n \in 0..(Len(buffer[c]) - 1),
               file' = file \o SubSeq(buffer[c], 1, n), Leave(c, "cleanup")
        PROVE  EchoLog!StoreHead(c)
    <3>1. EchoLog!Done(c)
      BY <2>2, LeaveIsDone
    <3>. QED  BY <1>0, <1>1, <1>5, <2>1, <2>2, <3>1 DEF EchoLog!StoreHead
  <2>3. ASSUME file' = file \o buffer[c] PROVE EchoLog!Kept(c)
    BY <1>5, <2>1, <2>3 DEF EchoLog!Kept
  <2>4. ASSUME file' = file \o buffer[c], Contains(buffer[c], Newline),
               Goto(c, "rewind"), UNCHANGED <<buffer, reply>>
        PROVE  EchoLog!Store(c)
    <3>1. pc'[c] = "rewind"
      BY <1>0, <2>4 DEF Goto
    <3>. QED  BY <1>0, <1>1, <1>2, <1>3, <2>3, <2>4, <3>1 DEF EchoLog!Store
  <2>5. ASSUME file' = file \o buffer[c], ~Contains(buffer[c], Newline), Leave(c, "recv")
        PROVE  EchoLog!Store(c)
    <3>1. EchoLog!Done(c)
      BY <2>5, LeaveIsDone
    <3>. QED  BY <1>0, <1>1, <1>2, <2>3, <2>5, <3>1 DEF EchoLog!Store
  <2>. QED  BY <2>1, <2>2, <2>4, <2>5 DEF WriteFile
<1>. QED  BY <1>4, <1>5

LEMMA IoctlSeeks ==
  ASSUME EchoInv, NEW c \in Client, Ioctl(c), handle_client(c)
  PROVE  EchoLog!Seek(c) \/ EchoLog!Finish(c)
<1>. DEFINE x == buffer[c][3]
            y == buffer[c][4]
<1>0. pc[c] = "ioctl" /\ UNCHANGED <<unsent, storage>>
  BY DEF Ioctl
<1>1. CASE Leave(c, "cleanup")
  BY <1>0, <1>1, LeaveFinishes
<1>2. CASE ~Leave(c, "cleanup")
  <2>1. /\ Exists(x, y)
        /\ Goto(c, "read_rest")
        /\ UNCHANGED <<buffer, reply>>
    BY <1>2 DEF Ioctl
  <2>2. Parses(buffer[c]) /\ useDevice
    BY <1>0 DEF EchoInv, AnswerInv, Answering
  <2>3. EchoLog!Idle /\ EchoLog!IsSeek(c)
    BY <1>0, NobodyAnswered, SameWords DEF EchoInv, Kinds
  <2>4. x \in Number /\ y \in Number /\ EchoLog!Named(c, x, y)
    BY <2>1, <2>2 DEF Parses, Exists, EchoLog!Named
  <2>5. pc'[c] = "read_rest"
    BY <2>1 DEF Goto, EchoInv, AnswerInv, SessionInv
  <2>6. AnswerStart(c)' = EchoLog!StartOf(x) + y
    <3>1. StartOf(x)' = StartOf(x) /\ buffer' = buffer
      BY <1>0, <2>1, StorageSame
    <3>2. AnswerStart(c)' = StartOf(x) + y
      BY <2>5, <3>1 DEF AnswerStart
    <3>. QED  BY <3>2, SameWords
  <2>7. EchoLog!AnswerFrom(c, EchoLog!StartOf(x) + y)
    BY <1>0, <2>1, <2>5, <2>6, AnswerBegins
  <2>. HIDE DEF x, y
  <2>. QED  BY <1>0, <2>2, <2>3, <2>4, <2>7 DEF EchoLog!Seek, EchoLog!store, storage
<1>. QED  BY <1>1, <1>2

(* A round of either loop sends what follows what has been sent.           *)
LEMMA ReadShows ==
  ASSUME EchoInv, NEW c \in Client, handle_client(c),
         NEW step \in {"read_back", "read_rest"}, NEW next \in {"recv", "cleanup"},
         ReadAndSend(c, step, next)
  PROVE  EchoLog!Show(c) \/ EchoLog!Finish(c)
<1>0. /\ AnswerInv /\ AnswerInv' /\ BytesOK /\ Answering(c) /\ Answering(c)'
      /\ pc[c] = step /\ UNCHANGED <<unsent, storage>>
  <2>1. AnswerInv /\ AnswerInv'
    BY AnswerStep DEF EchoInv, Next
  <2>. QED  BY <2>1 DEF AnswerInv, ReadAndSend
<1>1. CASE Leave(c, next)
  BY <1>0, <1>1, LeaveFinishes
<1>2. CASE ~Leave(c, next)
  <2>. DEFINE from == file_desc[c]
              to == Min({from + BufferSize} \cup {b \in Bounds : b > from})
              start == AnswerStart(c)
  <2>1. /\ from < Len(Content)
        /\ file_desc' = [file_desc EXCEPT ![c] = to]
        /\ UNCHANGED <<buffer, pc>>
    BY <1>2 DEF ReadAndSend
  <2>2. /\ Content' = Content
        /\ \A x, y : (Exists(x, y)' <=> Exists(x, y)) /\ StartOf(x)' = StartOf(x)
    BY <1>0, StorageSame
  <2>3. AnswerStart(c)' = start
    BY <2>1, <2>2 DEF AnswerStart
  <2>4. /\ start \in Nat /\ from \in Nat /\ start <= from
        /\ reply[c] = SubSeq(Content, start + 1, from)
        /\ reply'[c] = SubSeq(Content, start + 1, to)
    <3>0. file_desc'[c] = to
      BY <1>0, <2>1 DEF AnswerInv, SessionInv
    <3>1. CASE step = "read_back"
      <4>1. start = 0
        BY <1>0, <3>1 DEF AnswerStart
      <4>2. ReadsBack(c) /\ ReadsBack(c)'
        BY <1>0, <2>1, <3>1 DEF Answering
      <4>. QED  BY <2>2, <3>0, <4>1, <4>2 DEF ReadsBack
    <3>2. CASE step = "read_rest"
      <4>0. start = StartOf(buffer[c][3]) + buffer[c][4]
        BY <1>0, <3>2 DEF AnswerStart
      <4>1. Parses(buffer[c]) /\ useDevice /\ ReadsRest(c) /\ ReadsRest(c)'
        BY <1>0, <2>1, <3>2 DEF Answering
      <4>2. buffer[c][3] \in Nat /\ buffer[c][4] \in Nat
        BY <4>1, NumberAssumption DEF Parses
      <4>3. start \in Nat
        BY <1>0, <4>0, <4>1, <4>2, SeekPosition DEF ReadsRest
      <4>. QED  BY <2>1, <2>2, <3>0, <4>0, <4>1, <4>3 DEF ReadsRest
    <3>. QED  BY <3>1, <3>2
  <2>5. to \in Nat /\ from <= to /\ to <= Len(Content)
    BY <1>0, <2>1, <2>4, ReadStops
  <2>. DEFINE a == [from |-> start, sent |-> reply[c]]
  <2>6. a \in Answers[c] /\ a.from = start /\ a.sent = reply[c]
    BY <1>0 DEF Answers
  <2>7. Answers'[c] = {[from |-> a.from, sent |-> SubSeq(Content, a.from + 1, to)]}
    <3>1. Answers'[c] = {[from |-> AnswerStart(c)', sent |-> reply'[c]]}
      BY <1>0, <2>1 DEF Answers
    <3>. QED  BY <2>3, <2>4, <2>6, <3>1
  <2>. HIDE DEF from, to, start
  <2>8. Len(a.sent) = from - start
    <3>1. Content \in Seq(Symbol) /\ from <= Len(Content)
      BY <1>0, <2>1, <2>4, ContentType
    <3>2. Len(SubSeq(Content, start + 1, from)) = from - start
      BY ONLY <2>4, <3>1, PieceOfSeq
    <3>. QED  BY <2>4, <2>6, <3>2
  <2>. HIDE DEF a
  <2>9. to \in (a.from + Len(a.sent))..Len(Content)
    <3>1. a.from + Len(a.sent) = from
      BY <2>4, <2>6, <2>8
    <3>2. Len(Content) \in Nat
      BY <1>0, ContentType
    <3>. QED  BY <2>4, <2>5, <3>1, <3>2
  <2>10. Answers' = [Answers EXCEPT ![c] = {[from |-> a.from,
                                             sent |-> SubSeq(Content, a.from + 1, to)]}]
    BY <2>7, AnswersChange
  <2>. QED  BY <1>0, <2>1, <2>6, <2>9, <2>10, SameWords DEF EchoLog!Show, EchoLog!store, storage
<1>. QED  BY <1>1, <1>2

(* The steps on the way: clients see nothing of them, unless one fails.    *)
LEMMA OpenIsQuiet ==
  ASSUME EchoInv, NEW c \in Client, handle_client(c), NEW from, NEW to,
         Open(c, from, to),
         \/ from = "open" /\ to = "write"
         \/ from \in {"reopen", "rewind"} /\ to = "read_back"
         \/ from = "open_seek" /\ to = "ioctl"
  PROVE  EchoLog!Finish(c) \/ UNCHANGED EchoLog!vars
<1>0. pc[c] = from /\ UNCHANGED <<unsent, storage>>
  BY DEF Open
<1>1. CASE Leave(c, "cleanup")
  BY <1>0, <1>1, LeaveFinishes
<1>2. CASE ~Leave(c, "cleanup")
  <2>1. pc'[c] = to /\ UNCHANGED <<buffer, reply>>
    BY <1>2 DEF Open, Goto, EchoInv, AnswerInv, SessionInv
  <2>2. Answers'[c] = Answers[c]
    BY <1>0, <2>1 DEF Answers, AnswerStart
  <2>. QED  BY <1>0, <2>1, <2>2, QuietStep
<1>. QED  BY <1>1, <1>2

LEMMA OthersAreQuiet ==
  ASSUME EchoInv, NEW c \in Client, handle_client(c),
         \/ Hangup(c) \/ Cleanup(c)
         \/ Lock(c, "lock", "open") \/ Lock(c, "lock_seek", "open_seek")
  PROVE  UNCHANGED EchoLog!vars
<1>1. /\ pc[c] \in Outside
      /\ pc'[c] \in {"cleanup", "done", "open", "open_seek"}
      /\ UNCHANGED <<unsent, buffer, storage>>
  BY DEF Hangup, Cleanup, Lock, Goto, Outside, EchoInv, AnswerInv, SessionInv
<1>2. Answers'[c] = Answers[c]
  BY <1>1 DEF Answers, Outside
<1>. QED  BY <1>1, <1>2, QuietStep

LEMMA TimeStamps ==
  ASSUME EchoInv, timestamp_thread
  PROVE  EchoLog!TimeStamp
<1>1. EchoLog!Idle
  BY NobodyAnswered DEF timestamp_thread
<1>2. \A c \in Client : pc[c] \notin {"reopen", "rewind", "read_back", "read_rest"}
  BY NullAssumption DEF timestamp_thread, EchoInv, AnswerInv, SessionInv, SectionLeftClean, Outside
<1>3. Answers' = Answers
  BY <1>2 DEF timestamp_thread, Answers
<1>. QED  BY <1>1, <1>3 DEF timestamp_thread, EchoLog!TimeStamp

LEMMA EchoStep == EchoInv /\ [Next]_vars => [EchoLog!Next]_(EchoLog!vars)
<1>. SUFFICES ASSUME EchoInv, [Next]_vars PROVE EchoLog!Next \/ UNCHANGED EchoLog!vars
  OBVIOUS
<1>1. CASE UNCHANGED vars
  BY <1>1 DEF vars, EchoLog!vars, Answers, AnswerStart, StartOf
<1>2. CASE timestamp_thread
  BY <1>2, TimeStamps DEF EchoLog!Next
<1>3. ASSUME NEW c \in Client, handle_client(c)
      PROVE  EchoLog!Next \/ UNCHANGED EchoLog!vars
  <2>. USE <1>3
  <2>1. CASE Recv(c)
    BY <2>1, RecvReceives DEF EchoLog!Next
  <2>2. CASE \/ Hangup(c) \/ Cleanup(c)
             \/ Lock(c, "lock", "open") \/ Lock(c, "lock_seek", "open_seek")
    BY <2>2, OthersAreQuiet
  <2>3. CASE Open(c, "open", "write") \/ Open(c, "reopen", "read_back") \/ Rewind(c)
    <3>1. EchoLog!Finish(c) \/ UNCHANGED EchoLog!vars
      BY <2>3, OpenIsQuiet DEF Rewind
    <3>. QED  BY <3>1 DEF EchoLog!Next
  <2>4. CASE Write(c)
    BY <2>4, WriteStores DEF EchoLog!Next
  <2>5. CASE OpenToSeek(c)
    <3>1. CASE Open(c, "open_seek", "ioctl")
      <4>1. EchoLog!Finish(c) \/ UNCHANGED EchoLog!vars
        BY <3>1, OpenIsQuiet
      <4>. QED  BY <4>1 DEF EchoLog!Next
    <3>2. CASE Leave(c, "recv") /\ UNCHANGED <<unsent, storage>>
      BY <3>2, LeaveFinishes DEF EchoLog!Next
    <3>. QED  BY <2>5, <3>1, <3>2 DEF OpenToSeek
  <2>6. CASE Ioctl(c)
    BY <2>6, IoctlSeeks DEF EchoLog!Next
  <2>7. CASE ReadAndSend(c, "read_back", "cleanup") \/ ReadAndSend(c, "read_rest", "recv")
    <3>1. EchoLog!Show(c) \/ EchoLog!Finish(c)
      BY <2>7, ReadShows
    <3>. QED  BY <3>1 DEF EchoLog!Next
  <2>. QED  BY <2>1, <2>2, <2>3, <2>4, <2>5, <2>6, <2>7 DEF handle_client
<1>. QED  BY <1>1, <1>2, <1>3 DEF Next

LEMMA EchoInit == Init => EchoLog!Init
<1>. SUFFICES ASSUME Init PROVE EchoLog!Init
  OBVIOUS
<1>1. Answers = [c \in Client |-> {}]
  BY DEF Init, Answers
<1>. QED  BY <1>1 DEF Init, EchoLog!Init

(***************************************************************************)
(* handle_client keeps the promise to its clients: whatever they send and  *)
(* however it arrives, whatever fails, and whoever writes at the same time,*)
(* each chunk is stored in one step, and each answer shows the store as it *)
(* was then; in both builds, for any number of clients, any capacity and   *)
(* any size of the buffer.                                                 *)
(***************************************************************************)
THEOREM SessionImplementsEchoLog == Spec => ImplementsEchoLog
<1>1. Init => EchoInv /\ EchoLog!Init
  BY InitEcho, EchoInit
<1>2. EchoInv /\ [Next]_vars => EchoInv'
  BY EchoInvStep
<1>3. EchoInv /\ [Next]_vars => [EchoLog!Next]_(EchoLog!vars)
  BY EchoStep
<1>. QED  BY <1>1, <1>2, <1>3, PTL DEF Spec, ImplementsEchoLog, EchoLog!Spec

=============================================================================
