------------------------------ MODULE FileStream ------------------------------
(***************************************************************************)
(* One file over one connection, byte by byte: the sendFile and recvFile   *)
(* of the server, the Linux client and the Windows client, the recvCycle   *)
(* they share, and the digest a client takes of a file before it is sent.  *)
(* Transfer takes these steps whole.                                       *)
(*                                                                         *)
(* The sender writes four header fields, the length of the name, the name, *)
(* the length of the size and the size, and then the content.  Nothing     *)
(* marks where a field ends, and recv returns any number of the bytes that *)
(* have arrived.  sent and rcvd count the bytes of the connection.         *)
(***************************************************************************)
EXTENDS Md5

CONSTANTS
  MaxSize,        \* bound: the bytes of a file
  OtherSizes,     \* bound: the bytes of a file before it is received, or edited
  IntSize,        \* the bytes of an int, 4
  OffSize,        \* the bytes of an off_t, 8 (4 at a Windows client)
  NameSize,       \* the bytes of the name of the file
  Chunk,          \* what a Windows client moves with one call, 1000 bytes
  READ_DATA_SIZE, \* what compute_file_md5 reads with one call, 1024 bytes
  Absent          \* there is no such file, or no digest

ASSUME StreamAssumption ==
  /\ MaxSize \in Nat /\ MaxSize < Word /\ OtherSizes \subseteq 0 .. MaxSize
  /\ {IntSize, OffSize, NameSize, Chunk, READ_DATA_SIZE} \subseteq Nat \ {0}

VARIABLES
  kind,    \* who sends what to whom
  source,  \* the content of the file at the sender
  context, pos, digest,  \* the MD5 of the sender: its state, the bytes read, the result
  sPc, sent, cut, edited, \* the sender; it was killed; its user has changed the file
  rPc, total, rcvd,      \* the receiver: the field it is in and the bytes it has of it
  old, file,             \* the file at the receiver, before and now
  fileSize               \* the size that recvFile has been told, -1 if it fails

md5Vars == <<context, pos, digest>>
senderVars == <<sPc, sent, cut>>
receiverVars == <<rPc, total, rcvd, file, fileSize>>
vars == <<kind, source, md5Vars, senderVars, edited, receiverVars, old>>

\* "put" and "get" are a Linux client's, "winPut" and "winGet" a Windows
\* client's; "md5" is a call of compute_file_md5 and sends nothing.
Uploads == {"put", "winPut"}
Downloads == {"get", "winGet"}

\* Contents whose bytes tell where they are from.
ContentOf(who, n) == [i \in 1 .. n |-> <<who, i>>]
Contents(who, sizes) == {ContentOf(who, n) : n \in sizes}

Width == [nameLen |-> IntSize, name |-> NameSize, sizeLen |-> IntSize, size |-> OffSize]
After == [nameLen |-> "name", name |-> "sizeLen", sizeLen |-> "size", size |-> "data"]

\* The bytes of the connection before a field.
Start == [nameLen |-> 0, name |-> IntSize, sizeLen |-> IntSize + NameSize,
          size |-> 2 * IntSize + NameSize, data |-> 2 * IntSize + NameSize + OffSize]

Init ==
  /\ kind \in Uploads \cup Downloads \cup {"md5"}
  /\ source \in Contents("new", 0 .. MaxSize)
  /\ context = MD5Init /\ pos = 0 /\ digest = Absent
  /\ sPc = IF kind \in Uploads THEN "hash" ELSE IF kind = "md5" THEN "chunks" ELSE "open"
  /\ sent = 0 /\ cut = FALSE /\ edited = FALSE
  /\ rPc = IF kind = "md5" THEN "done" ELSE "nameLen"
  /\ total = 0 /\ rcvd = 0
  /\ old \in IF kind = "md5" THEN {Absent} ELSE Contents("old", OtherSizes) \cup {Absent}
  /\ file = old
  /\ fileSize = 0

-----------------------------------------------------------------------------
(* The digest. *)

\* The transfer threads read the whole file with one call.
Hash ==
  /\ sPc = "hash"
  /\ digest' = MD5Final(MD5Update(context, source))
  /\ sPc' = "open"
  /\ UNCHANGED <<kind, source, context, pos, sent, cut, edited, receiverVars, old>>

\* compute_file_md5 stops at a read that is not full.
HashChunk ==
  LET left == Len(source) - pos
      data == SubSeq(source, pos + 1, pos + IF left < READ_DATA_SIZE THEN left ELSE READ_DATA_SIZE)
      read == MD5Update(context, data)
  IN /\ sPc = "chunks"
     /\ context' = read
     /\ pos' = pos + Len(data)
     /\ IF Len(data) < READ_DATA_SIZE
          THEN digest' = MD5Final(read) /\ sPc' = "closed"
          ELSE UNCHANGED <<digest, sPc>>
     /\ UNCHANGED <<kind, source, sent, cut, edited, receiverVars, old>>

\* The user writes the file while the client waits for the server's answer to
\* the digest.
Edit ==
  /\ kind \in Uploads /\ sPc = "open" /\ ~edited
  /\ source' \in Contents("edited", OtherSizes)
  /\ edited' = TRUE
  /\ UNCHANGED <<kind, md5Vars, senderVars, receiverVars, old>>

-----------------------------------------------------------------------------
(* sendFile *)

\* The file is opened again, and its size is taken from now.
Open ==
  /\ sPc = "open"
  /\ sPc' = "send"
  /\ UNCHANGED <<kind, source, md5Vars, sent, cut, edited, receiverVars, old>>

\* The header is sent by two calls; the content by one from a mapping, or in
\* chunks by a Windows client.  A call may block in the middle.
Send ==
  /\ sPc = "send"
  /\ LET size == Start.data + Len(source)
         most == IF kind = "winPut" THEN Chunk ELSE size
     IN \E n \in 1 .. size - sent :
          /\ n <= most
          /\ sent' = sent + n
          /\ sPc' = IF sent + n = size THEN "closed" ELSE "send"
  /\ UNCHANGED <<kind, source, md5Vars, cut, edited, receiverVars, old>>

\* The process of the sender is killed.
Die ==
  /\ sPc \in {"open", "send"}
  /\ sPc' = "closed"
  /\ cut' = TRUE
  /\ UNCHANGED <<kind, source, md5Vars, sent, edited, receiverVars, old>>

-----------------------------------------------------------------------------
(* recvFile *)

\* Mutants of Taken: bytes are taken that have not arrived; the bytes that are
\* still missing are not subtracted.
TakenAhead(want) == 1 .. want
TakenWhole(want) == 1 .. IF want < sent - rcvd THEN want + total ELSE sent - rcvd

\* What recv(p + total, dataLen - total) can return: dataLen - total is want.
Taken(want) == 1 .. IF want < sent - rcvd THEN want ELSE sent - rcvd

\* Mutant of Lost: a recv of no bytes is tried again.
LostNever == FALSE

\* recv returns 0, or -1 once and then 0.
Lost == sPc = "closed" /\ rcvd = sent

\* Mutant of Resized: a file that is long enough is not cut.
ResizedUp(f, n) == IF Len(f) >= n THEN f ELSE f \o [i \in 1 .. n - Len(f) |-> ZERO]

\* ftruncate
Resized(f, n) == [i \in 1 .. n |-> IF i <= Len(f) THEN f[i] ELSE ZERO]

\* After the header.  A size of 0 cannot be mapped, and recvFile returns -1.
\* The Windows client opens the file to append and neither cuts nor maps it.
Begin(f, n) ==
  IF kind = "winGet"
    THEN /\ file' = f
         /\ fileSize' = n
         /\ rPc' = IF n = 0 THEN "done" ELSE "data"
    ELSE /\ file' = Resized(f, n)
         /\ fileSize' = IF n = 0 THEN -1 ELSE n
         /\ rPc' = IF n = 0 THEN "done" ELSE "data"

\* open with O_CREAT, fopen with "ab+"
Created == IF file = Absent THEN <<>> ELSE file

\* recvCycle for a header field.
RecvHeader ==
  /\ rPc \in DOMAIN After
  /\ \E n \in Taken(Width[rPc] - total) :
       /\ rcvd' = rcvd + n
       /\ \/ /\ total + n < Width[rPc]
             /\ total' = total + n
             /\ UNCHANGED <<rPc, file, fileSize>>
          \/ /\ total + n >= Width[rPc]
             /\ total' = 0
             /\ IF rPc = "size"
                  THEN Begin(file, Len(source))
                  ELSE /\ rPc' = After[rPc]
                       /\ file' = IF rPc = "name" THEN Created ELSE file
                       /\ UNCHANGED fileSize
  /\ UNCHANGED <<kind, source, md5Vars, senderVars, edited, old>>

\* No caller looks at what recvCycle returns.  A client without the whole name
\* opens another file or reads before its buffer; the server has the name from
\* the task.  Without the size, or with some bytes of it, too little is awaited.
LostHeader ==
  /\ rPc \in DOMAIN After
  /\ Lost
  /\ total' = 0
  /\ \/ /\ kind \in Downloads /\ rPc \in {"nameLen", "name"}
        /\ rPc' = "broken"
        /\ UNCHANGED <<file, fileSize>>
     \/ /\ kind \in Uploads \/ rPc \in {"sizeLen", "size"}
        /\ \E n \in IF rPc = "size" /\ total > 0 THEN 0 .. Len(source) ELSE {0} :
             Begin(Created, n)
  /\ UNCHANGED <<kind, source, md5Vars, senderVars, edited, rcvd, old>>

\* Mutant of Placed: the bytes go to the start of the buffer.
PlacedFirst(bytes) == Memcpy(file, 0, bytes)

\* The next bytes of the content: at their place in the mapping, or appended.
Placed(bytes) == IF kind = "winGet" THEN file \o bytes ELSE Memcpy(file, total, bytes)

\* recvCycle into the mapping, or the loop of the Windows client.
RecvData ==
  /\ rPc = "data"
  /\ \E n \in Taken(fileSize - total) :
       /\ kind = "winGet" => n <= Chunk
       /\ LET from == rcvd - Start.data IN file' = Placed(SubSeq(source, from + 1, from + n))
       /\ rcvd' = rcvd + n
       /\ total' = total + n
       /\ rPc' = IF total + n < fileSize THEN "data" ELSE "done"
  /\ UNCHANGED <<kind, source, md5Vars, senderVars, edited, fileSize, old>>

\* The server and the Linux client return as if everything had arrived.  The
\* loop of the Windows client adds 0 to its count for ever.
LostData ==
  /\ rPc = "data"
  /\ Lost
  /\ rPc' = IF kind = "winGet" THEN "spin" ELSE "done"
  /\ UNCHANGED <<kind, source, md5Vars, senderVars, edited, total, rcvd, file, fileSize, old>>

-----------------------------------------------------------------------------
SendFile == Hash \/ HashChunk \/ Open \/ Send
RecvFile == RecvHeader \/ LostHeader \/ RecvData \/ LostData

Next == SendFile \/ Edit \/ Die \/ RecvFile

Spec == Init /\ [][Next]_vars

\* Neither end waits for a user: both processes are scheduled, and what is
\* sent arrives.
FairSpec == Spec /\ WF_vars(SendFile) /\ WF_vars(RecvFile)

-----------------------------------------------------------------------------
Bytes == ({"new", "old", "edited"} \X (1 .. MaxSize)) \cup {ZERO}

\* Both processes, the connection and the file keep to their types.
TypeOK ==
  /\ kind \in Uploads \cup Downloads \cup {"md5"}
  /\ source \in Seq(Bytes)
  /\ pos \in 0 .. MaxSize
  /\ sPc \in {"hash", "chunks", "open", "send", "closed"}
  /\ rPc \in {"nameLen", "name", "sizeLen", "size", "data", "done", "broken", "spin"}
  /\ sent \in Nat /\ rcvd \in 0 .. sent
  /\ total \in Nat
  /\ cut \in BOOLEAN /\ edited \in BOOLEAN
  /\ old \in Seq(Bytes) \cup {Absent}
  /\ file \in Seq(Bytes) \cup {Absent}
  /\ fileSize \in -1 .. MaxSize

(***************************************************************************)
(* However recv cuts the stream, recvCycle takes the bytes of its field,   *)
(* all of them and none of the next: the receiver always stands where the  *)
(* sender put the field it is reading, unless nothing will ever arrive any *)
(* more; after a transfer that was not cut nothing is left to be read.     *)
(***************************************************************************)
Aligned ==
  /\ rPc \in DOMAIN Start =>
       rcvd = Start[rPc] + total \/ (cut /\ sPc = "closed" /\ rcvd = sent)
  /\ rPc = "done" /\ kind # "md5" /\ ~cut => rcvd = Start.data + Len(source)

\* The file at the receiver when n bytes of the content have been placed.
Partial(n) ==
  LET before == IF old = Absent THEN <<>> ELSE old
      part == SubSeq(source, 1, n)
  IN IF kind = "winGet" THEN before \o part ELSE Memcpy(Resized(before, fileSize), 0, part)

(***************************************************************************)
(* The content arrives in order.  While it does, and when it stops because *)
(* the sender was killed, the file is a prefix of the source over what was *)
(* there before, cut or padded with zeros; at a Windows client the prefix  *)
(* follows what was there before.                                          *)
(***************************************************************************)
PrefixArrives ==
  rPc \in {"data", "done", "spin"} /\ fileSize > 0 => file = Partial(total)

(***************************************************************************)
(* The digest is the MD5 of the content that was read, whether with one    *)
(* call or in chunks: the buffer, the count with its carry and the padding *)
(* never lose, repeat or misplace a byte.                                  *)
(***************************************************************************)
DigestIsMd5 == digest # Absent /\ ~edited => digest = Digest(source)

(***************************************************************************)
(* What the server records under the digest of an upload has that digest,  *)
(* whatever the file was before, unless the client was killed or its user  *)
(* wrote the file after the digest was taken.                              *)
(***************************************************************************)
UploadHasDigest ==
  kind \in Uploads /\ rPc = "done" /\ ~cut /\ ~edited => Digest(file) = digest

(***************************************************************************)
(* recvFile returns.  Only a client that loses the server may not: without *)
(* the name its behaviour is undefined, and the Windows client spins.      *)
(***************************************************************************)
TransferEnds == <>(rPc = "done" \/ (kind \in Downloads /\ cut))
=============================================================================
