---------------------------- MODULE BinarySignal ----------------------------
(***************************************************************************)
(* One binary signal of a signal vector (signal.c) and the stream that its *)
(* codec reads and writes it by (ncodec.c).  A signal is a record          *)
(*   data     the messages in its buffer, up to its length                 *)
(*   pos      the position of the stream                                   *)
(*   reset    reset_called                                                 *)
(* Positions count messages, a codec reads and writes whole ones.          *)
(***************************************************************************)
EXTENDS Integers, Sequences

Least(a, b) == IF a < b THEN a ELSE b

\* __binary_append: that reset was not called before is only logged.
Appended(b, data) == [b EXCEPT !.data = @ \o data]

\* __binary_reset, and with the buffer also freed __binary_release.
Reset(b) == [data |-> << >>, pos |-> 0, reset |-> TRUE]

\* stream_read: the rest of the buffer, and where the stream is afterwards.
Rest(b) == SubSeq(b.data, b.pos + 1, Len(b.data))

Read(b, update) ==
  [b EXCEPT !.pos = IF update /\ @ < Len(b.data) THEN Len(b.data) ELSE @]

\* stream_write: at the position of the stream, which truncates the buffer.
Write(b, data) ==
  LET at == Least(b.pos, Len(b.data))
  IN [b EXCEPT !.data = SubSeq(@, 1, at) \o data, !.pos = at + Len(data)]

\* stream_seek, with NCODEC_SEEK_SET, CUR, END and RESET.
SeekSet(b, pos) == [b EXCEPT !.pos = Least(pos, Len(b.data))]
SeekCur(b, pos) == SeekSet(b, b.pos + pos)
SeekEnd(b) == SeekSet(b, Len(b.data))
SeekReset(b) == Reset(b)
=============================================================================
