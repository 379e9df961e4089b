------------------------------ MODULE ByteFile ------------------------------
(***************************************************************************)
(* What reading and writing files through descriptors promises.  A file is *)
(* an array of bytes that every descriptor on it shares; a descriptor has  *)
(* an offset and a limit of its own.  A call moves n bytes, n at most what *)
(* was asked for, and the offset by n; a call that fails moves nothing.    *)
(* What was written survives the process.                                  *)
(***************************************************************************)
EXTENDS Integers, Sequences

CONSTANTS
  Files,
  Offsets,     \* of the bytes a file can have
  Bytes,
  Limits,      \* how far a descriptor may read
  MaxRequest   \* bytes asked for by one call

VARIABLES
  content,  \* the bytes of each file
  views,    \* the descriptors in use: file, offset, limit
  result    \* of the last call: what it did, where, and the bytes it moved

bytefile == <<content, views, result>>

Result(op, d, n, data) ==
  [op |-> op, file |-> views[d].file, at |-> views[d].off, n |-> n, data |-> data]

Advance(d, n) == views' = [views EXCEPT ![d].off = @ + n]

Opened == \E f \in Files, limit \in Limits :
  /\ views' = Append(views, [file |-> f, off |-> 0, limit |-> limit])
  /\ UNCHANGED <<content, result>>

Read(d) == \E n \in 0 .. MaxRequest :
  /\ n > 0 => views[d].off + n <= views[d].limit
  /\ result' = Result("read", d, n,
                      [p \in 1 .. n |-> content[views[d].file][views[d].off + p - 1]])
  /\ Advance(d, n)
  /\ UNCHANGED content

Written(d) == \E n \in 0 .. MaxRequest : \E data \in [1 .. n -> Bytes] :
  /\ n > 0 => views[d].off + n - 1 \in Offsets
  /\ result' = Result("write", d, n, data)
  /\ content' = [content EXCEPT ![views[d].file] =
       [o \in Offsets |-> IF o - views[d].off \in 0 .. n - 1
                          THEN data[o - views[d].off + 1] ELSE @[o]]]
  /\ Advance(d, n)

Failed(d) ==
  /\ \E op \in {"read", "write"} : result' = Result(op, d, -1, <<>>)
  /\ UNCHANGED <<content, views>>

Closed == \E n \in 0 .. Len(views) - 1 :
  /\ views' = SubSeq(views, 1, n)
  /\ UNCHANGED <<content, result>>

ByteFileInit ==
  /\ content \in [Files -> [Offsets -> Bytes]]
  /\ views = <<>>
  /\ result = [op |-> "none"]

ByteFileNext ==
  \/ Opened
  \/ \E d \in DOMAIN views : Read(d) \/ Written(d) \/ Failed(d)
  \/ Closed

ByteFileSpec == ByteFileInit /\ [][ByteFileNext]_bytefile
=============================================================================
