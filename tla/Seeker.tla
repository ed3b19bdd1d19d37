------------------------------- MODULE Seeker -------------------------------
(***************************************************************************)
(* The reader of lib.h: a position and an end inside a buffer.  The buffer *)
(* is the mapping of a file, so bytes after its last one, up to the end of *)
(* the page, read as 0 (external: mmap).                                   *)
(***************************************************************************)
EXTENDS Integers, Sequences, FiniteSetsExt

Number(bits) == MapThenSumSet(LAMBDA b : 2 ^ b, bits)
Bits(n) == {b \in 0..30 : (n \div 2 ^ b) % 2 = 1}

ByteAt(buffer, i) == IF i < Len(buffer) THEN buffer[i + 1] ELSE {}

\* The end is that of the outer Seeker.
SubSeekerToEnd(s, length) == [curr |-> s.curr, end |-> s.end]

\* The Seeker of a submessage: from where the outer one stands.
SubSeeker(s, length) == [curr |-> s.curr, end |-> s.curr + length]

Skip(s, len) == [s EXCEPT !.curr = @ + len]

\* The loop that ReadVarint32 and ReadVarint64 share: seven bits a byte until
\* one has no continuation bit, or the end.  wide says that a byte was shifted
\* by the width of the type or more.
Varint(buffer, seeker, width) ==
  LET reader[s \in [curr : Nat, end : Nat]] ==
        LET stops == {i \in s.curr..(s.end - 1) : 7 \notin ByteAt(buffer, i)}
            read  == s.curr..(IF stops = {} THEN s.end - 1 ELSE Min(stops))
            bits  == UNION {{7 * (i - s.curr) + b : b \in ByteAt(buffer, i) \ {7}} : i \in read}
        IN  [ok    |-> stops # {},
             seek  |-> [s EXCEPT !.curr = IF read = {} THEN @ ELSE Max(read) + 1],
             value |-> bits \cap 0..(width - 1),
             wide  |-> \E i \in read : 7 * (i - s.curr) >= width]
  IN  reader[seeker]

\* shift has the width of uint32_t.
ReadVarint64In32(buffer, s) == Varint(buffer, s, 32)

ReadVarint32(buffer, s) == Varint(buffer, s, 32)
ReadVarint64(buffer, s) == Varint(buffer, s, 64)

\* A tag that cannot be read is 0, which ends the message.
ReadTag(buffer, s) ==
  LET r == ReadVarint32(buffer, s) IN IF r.ok THEN r ELSE [r EXCEPT !.value = {}]

FieldId(tag) == {b - 3 : b \in {c \in tag : c >= 3}}
Wire(tag)    == tag \cap 0..2

ReadString(buffer, s, len) ==
  IF s.curr + len > s.end
  THEN [ok |-> FALSE, seek |-> s, value |-> <<>>]
  ELSE [ok |-> TRUE, seek |-> Skip(s, len),
        value |-> [i \in 1..len |-> ByteAt(buffer, s.curr + i - 1)]]
=============================================================================
