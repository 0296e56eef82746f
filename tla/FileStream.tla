----------------------------- MODULE FileStream -----------------------------
(***************************************************************************)
(* What a media player on the device may rely on when it plays a file from *)
(* a sender: it asks for an offset, and from the answer on it gets the     *)
(* blocks from that offset on, each once and in order, and the end of the  *)
(* file behind the last one.  It may ask again, or stop, at any time, and  *)
(* the sender may start another file, until the connection is gone.        *)
(***************************************************************************)
EXTENDS Integers

CONSTANT Length   \* the blocks of the file are 0..Length-1

VARIABLE wire     \* the packet written to the device last

Packet(kind, offset) == [kind |-> kind, offset |-> offset]

Packets == [kind : {"none", "start", "answer", "contents", "eof", "stop", "gone"},
            offset : 0..Length]

\* Where the contents go on.
Streaming == wire.kind \in {"answer", "contents"}
Position == IF wire.kind = "answer" THEN wire.offset ELSE wire.offset + 1

Init == wire = Packet("none", 0)

Start == wire' = Packet("start", 0)

Answer == \E offset \in 0..Length : wire' = Packet("answer", offset)

Contents ==
  /\ Streaming /\ Position < Length
  /\ wire' = Packet("contents", Position)

Eof ==
  /\ Streaming /\ Position = Length
  /\ wire' = Packet("eof", Length)

Stop == wire' = Packet("stop", 0)

Break == wire' = Packet("gone", 0)

Next == wire.kind # "gone" /\ (Start \/ Answer \/ Contents \/ Eof \/ Stop \/ Break)

Spec == Init /\ [][Next]_wire
=============================================================================
